---- MODULE Spec2Model ----
(***************************************************************************)
(* rlox: a single-pass Pratt compiler (compiler.rs) emitting bytecode into *)
(* chunks (chunk.rs) and a stack VM (vm.rs) executing it over values       *)
(* (value.rs).                                                             *)
(*                                                                         *)
(* The compiler is a pure function of the token stream and is written as   *)
(* recursive operators over a compiler record, one operator per method of  *)
(* Compiler.  The VM is a state machine: one action per arm of the         *)
(* dispatch loop of VM::run, plus interpret_source.                        *)
(*                                                                         *)
(* Text (lexemes, string values, names) is a sequence of character codes.  *)
(* Numbers (f64 in the code) are integers: the programs of the model use   *)
(* integer literals and exact divisions only.  Source lines (Chunk::lines, *)
(* Token::line) only feed diagnostics and are left out.                    *)
(***************************************************************************)
EXTENDS Integers, Sequences, FiniteSets, TLC

VARIABLES
    frames,           \* VM::frames: Seq of [function, ip, slot]
    stack,            \* VM::stack: Seq of Value
    globals,          \* VM::globals: Seq of Option<Value> (length 0 or 256)
    result,           \* where interpret_source stands: "Idle", "Running", or its outcome
    out,              \* the values printed by OpCode::Print, in order
    overflow_checks,  \* the build: TRUE = overflow checks on (debug), FALSE = wrapping (release)
    runs,             \* number of interpret_source calls made on this VM
    steps,            \* number of instructions dispatched by the current run()
    calls,            \* history: per frame, the stack and frames at the moment of its Call
    last              \* history: what the last action did

vars == <<frames, stack, globals, result, out, overflow_checks, runs, steps, calls, last>>

-----------------------------------------------------------------------------
(* Bounds of the model. *)

\* interpret_source calls per VM in SpecSeq
MaxRuns == 2
\* instructions dispatched per run() before the model stops following it
MaxSteps == 40
\* call frames the model follows
MaxFrames == 4
\* stand-in for 2^64, the modulus of wrapping usize arithmetic
UsizeModulus == 1000000

-----------------------------------------------------------------------------
(* token.rs *)

TokenTypes ==
    { "LeftParen", "RightParen", "LeftBrace", "RightBrace", "Comma", "Dot",
      "Minus", "Plus", "Semicolon", "Slash", "Star", "Bang", "BangEqual",
      "Equal", "EqualEqual", "Greater", "GreaterEqual", "Less", "LessEqual",
      "Identifier", "String", "Number", "And", "Class", "Else", "False",
      "For", "Fun", "If", "Nil", "Or", "Print", "Return", "Super", "This",
      "True", "Var", "While", "Eof", "Error" }

Token(type, lexeme) == [type |-> type, lexeme |-> lexeme]

\* Token::default(): type Error, empty lexeme
DefaultToken == Token("Error", <<>>)

-----------------------------------------------------------------------------
(* chunk.rs *)

\* enum OpCode as bytes; PrintValue is OpCode::Print
OpCode ==
    [ Return |-> 0, Nil |-> 1, True |-> 2, False |-> 3, Number |-> 4,
      String |-> 5, Function |-> 6, Not |-> 7, Negate |-> 8, Addition |-> 9,
      Subtract |-> 10, Multiply |-> 11, Divide |-> 12, Equal |-> 13,
      Greater |-> 14, Less |-> 15, PrintValue |-> 16, Pop |-> 17,
      DefineGlobal |-> 18, GetGlobal |-> 19, SetGlobal |-> 20,
      GetLocal |-> 21, SetLocal |-> 22, JumpFalse |-> 23, Jump |-> 24,
      JumpBack |-> 25, Call |-> 26 ]

\* cap of each constant pool
PoolCap == 256

\* Chunk::new
NewChunk ==
    [ code |-> <<>>, numbers |-> <<>>, strings |-> <<>>,
      functions |-> <<>>, variables |-> <<>> ]

write_code(chunk, byte) == [chunk EXCEPT !.code = Append(@, byte)]

\* offset is 0-based as in the code
update_code(chunk, offset, byte) == [chunk EXCEPT !.code[offset + 1] = byte]

code_size(chunk) == Len(chunk.code)

\* a cap that lets a pool of PoolCap entries take one more
pool_has_room_inclusive(pool) == Len(pool) <= PoolCap

\* add_*: Ok(index) iff the pool is below the cap; the index is the old length
pool_has_room(pool) == Len(pool) < PoolCap

add_number(chunk, number) ==
    IF pool_has_room(chunk.numbers)
    THEN [chunk EXCEPT !.numbers = Append(@, number)] ELSE chunk

add_string(chunk, string) ==
    IF pool_has_room(chunk.strings)
    THEN [chunk EXCEPT !.strings = Append(@, string)] ELSE chunk

\* add_variable that returns the index and pushes nothing
add_variable_unpushed(chunk, variable) == chunk

add_variable(chunk, variable) ==
    IF pool_has_room(chunk.variables)
    THEN [chunk EXCEPT !.variables = Append(@, variable)] ELSE chunk

add_function(chunk, function) ==
    IF pool_has_room(chunk.functions)
    THEN [chunk EXCEPT !.functions = Append(@, function)] ELSE chunk

\* Disassemble::disassemble_instruction: bytes an instruction occupies
InstructionLength(op) ==
    IF op \in { OpCode.JumpFalse, OpCode.Jump, OpCode.JumpBack } THEN 3
    ELSE IF op \in { OpCode.Number, OpCode.String, OpCode.Function,
                     OpCode.DefineGlobal, OpCode.GetGlobal, OpCode.SetGlobal,
                     OpCode.GetLocal, OpCode.SetLocal, OpCode.Call } THEN 2
    ELSE 1

-----------------------------------------------------------------------------
(* compiler.rs: precedences and parse rules *)

Precedence ==
    [ None |-> 0, Assignment |-> 1, Or |-> 2, And |-> 3, Equality |-> 4,
      Comparison |-> 5, Term |-> 6, Factor |-> 7, Unary |-> 8, Call |-> 9,
      Primary |-> 10 ]

\* a promote that stays on the level it is given
promote_none(precedence) == precedence

\* Precedence::promote
promote(precedence) == precedence + 1

\* PARSE_RULES[type].precedence
rule_precedence(type) ==
    CASE type = "LeftParen" -> Precedence.Call
      [] type \in { "Plus", "Minus" } -> Precedence.Term
      [] type \in { "Star", "Slash" } -> Precedence.Factor
      [] type \in { "BangEqual", "EqualEqual" } -> Precedence.Equality
      [] type \in { "Greater", "GreaterEqual", "Less", "LessEqual" } ->
            Precedence.Comparison
      [] type = "And" -> Precedence.And
      [] type = "Or" -> Precedence.Or
      [] OTHER -> Precedence.None

\* PARSE_RULES[type].prefix, by the name of the method ("" = None)
rule_prefix(type) ==
    CASE type = "LeftParen" -> "parse_grouping"
      [] type \in { "Minus", "Bang" } -> "parse_unary"
      [] type = "Number" -> "parse_number"
      [] type \in { "Nil", "True", "False" } -> "parse_literal"
      [] type = "String" -> "parse_string"
      [] type = "Identifier" -> "parse_variable"
      [] OTHER -> ""

\* PARSE_RULES[type].infix, by the name of the method ("" = None)
rule_infix(type) ==
    CASE type = "LeftParen" -> "parse_call"
      [] type \in { "Plus", "Minus", "Star", "Slash", "BangEqual",
                    "EqualEqual", "Greater", "GreaterEqual", "Less",
                    "LessEqual" } -> "parse_binary"
      [] type = "And" -> "parse_and"
      [] type = "Or" -> "parse_or"
      [] OTHER -> ""

-----------------------------------------------------------------------------
(* compiler.rs: compile contexts, token plumbing, errors *)

\* HashMap<String, usize>::new()
EmptyMap == [x \in {} |-> 0]

\* insert: the value of key is replaced when the map has the key
map_insert(map, key, value) == (key :> value) @@ map

map_remove(map, key) == [k \in DOMAIN map \ {key} |-> map[k]]

\* CompileContext::new
NewContext ==
    [ variables |-> EmptyMap, local_count |-> 0, depth |-> 0,
      chunk |-> NewChunk, function_name |-> <<>>, params_num |-> 0 ]

\* Compiler::new, with the scanner reset to the tokens of the source
NewCompiler(toks) ==
    [ toks |-> toks, pos |-> 1, current |-> DefaultToken,
      previous |-> DefaultToken, is_panic |-> FALSE, had_error |-> FALSE,
      errors |-> <<>>, ctx |-> <<>>, overflowed |-> FALSE,
      consumed |-> 0, marks |-> <<>>, idle |-> {} ]

root_context(c) == c.ctx[1]

curr_context(c) == c.ctx[Len(c.ctx)]

push_context(c) == [c EXCEPT !.ctx = Append(@, NewContext)]

\* a write through the RefCells of the current context
set_context(c, context) == [c EXCEPT !.ctx[Len(c.ctx)] = context]

\* curr_context().chunk.borrow_mut().write_code(byte, line)
emit(c, byte) ==
    set_context(c, [curr_context(c) EXCEPT !.chunk = write_code(@, byte)])

\* usize subtraction: panics with overflow checks on, wraps otherwise
usize_sub(a, b) == (a - b) % UsizeModulus

usize_add(a, b) == (a + b) % UsizeModulus

mark_overflow(c, overflow) ==
    IF overflow THEN [c EXCEPT !.overflowed = TRUE] ELSE c

throw_error(c, message) ==
    IF c.is_panic THEN c
    ELSE [c EXCEPT !.is_panic = TRUE, !.had_error = TRUE,
                   !.errors = Append(@, message)]

\* Scanner::scan_token over an already scanned source: Eof for ever at the end
scan_token(c) ==
    IF c.pos <= Len(c.toks) THEN c.toks[c.pos] ELSE Token("Eof", <<>>)

RECURSIVE advance_loop(_)
advance_loop(c) ==
    LET c1 == [c EXCEPT !.current = scan_token(c),
                        !.pos = IF c.pos <= Len(c.toks) THEN @ + 1 ELSE @]
    IN  IF c1.current.type = "Error"
        THEN advance_loop(throw_error(c1, "Scan Lex error"))
        ELSE c1

\* consumed counts the tokens that left current
advance(c) ==
    advance_loop([c EXCEPT !.previous = c.current,
                           !.consumed = IF c.current.type = "Eof"
                                        THEN @ ELSE @ + 1])

\* r#match: the state after; its boolean is c.current.type = token_type
match(c, token_type) ==
    IF c.current.type = token_type THEN advance(c) ELSE c

consume(c, token_type, message) ==
    IF c.current.type = token_type THEN advance(c)
    ELSE throw_error(c, message)

\* history of the loops. marks holds, for each loop the compiler is in, the
\* value of consumed at the head of the turn under way (-1 before the first
\* turn); idle keeps the turns that consumed no token, with the loop,
\* whether the current token is Eof and whether the loop turns again
loop_begin(c) == [c EXCEPT !.marks = Append(@, -1)]

\* the head of a loop: the turn before it has ended, and when goes_on holds
\* the next one begins
loop_head(c, loop, goes_on) ==
    [c EXCEPT
        !.idle = IF c.marks[Len(c.marks)] = c.consumed
                 THEN @ \cup { [ loop |-> loop, goes_on |-> goes_on,
                                 at_eof |-> c.current.type = "Eof" ] }
                 ELSE @,
        !.marks = IF goes_on
                  THEN [@ EXCEPT ![Len(@)] = c.consumed]
                  ELSE SubSeq(@, 1, Len(@) - 1)]

\* the head of a loop that carries its state in a record with the flag go
headed(s, loop) == [s EXCEPT !.c = loop_head(s.c, loop, s.go)]

\* the loop of error_synchronize: each arm is one turn
RECURSIVE synchronize_loop(_)
synchronize_loop(c) ==
    CASE c.current.type = "Eof" ->
             loop_head(loop_head(c, "error_synchronize", TRUE),
                       "error_synchronize", FALSE)
      [] c.current.type = "Semicolon" ->
             loop_head(advance(loop_head(c, "error_synchronize", TRUE)),
                       "error_synchronize", FALSE)
      [] OTHER ->
             synchronize_loop(advance(loop_head(c, "error_synchronize", TRUE)))

error_synchronize(c) ==
    IF c.is_panic
    THEN synchronize_loop(loop_begin([c EXCEPT !.is_panic = FALSE]))
    ELSE c

\* Compiler::compile_end: the state after; the Function it returns is
\* finished_function of the state before
finished_function(c) ==
    LET context == curr_context(emit(emit(c, OpCode.Nil), OpCode.Return))
    IN  [ name |-> context.function_name, params_num |-> context.params_num,
          chunk |-> context.chunk ]

compile_end(c) == [c EXCEPT !.ctx = SubSeq(@, 1, Len(@) - 1)]

-----------------------------------------------------------------------------
(* compiler.rs: scopes and jump patching *)

scoop_begin(c) ==
    LET context == curr_context(c)
        depth   == context.depth + 1
    IN  set_context(c, [context EXCEPT !.depth = depth,
                            !.variables = map_insert(@, depth, EmptyMap)])

\* for _ in 0..n { write_code(byte) }
emit_times(c, byte, n) ==
    set_context(c, [curr_context(c) EXCEPT
                       !.chunk.code = @ \o [i \in 1..n |-> byte]])

\* scoop_end that leaves local_count as it is
scoop_end_keep_count(c) ==
    LET context == curr_context(c)
        depth   == context.depth
        c1      == emit_times(c, OpCode.Pop,
                              Cardinality(DOMAIN context.variables[depth]))
    IN  set_context(c1, [curr_context(c1) EXCEPT
                            !.variables = map_remove(@, depth),
                            !.depth = usize_sub(@, 1)])

scoop_end(c) ==
    LET context == curr_context(c)
        depth   == context.depth
        block_variables_len == Cardinality(DOMAIN context.variables[depth])
        c1      == emit_times(c, OpCode.Pop, block_variables_len)
        ctx1    == curr_context(c1)
    IN  mark_overflow(
            set_context(c1,
                [ctx1 EXCEPT
                    !.local_count = usize_sub(@, block_variables_len),
                    !.variables = map_remove(@, depth),
                    !.depth = usize_sub(@, 1)]),
            context.local_count < block_variables_len \/ depth < 1)

\* the state after; the offset it returns is code_size of the chunk before
patch_forward_begin(c, jump_code) == emit(emit(emit(c, jump_code), 255), 255)

patch_forward_end(c, jump_code_offset) ==
    LET context    == curr_context(c)
        jump_count == usize_sub(usize_sub(code_size(context.chunk),
                                          jump_code_offset), 3)
        c1 == mark_overflow(
                  IF jump_count > 65535
                  THEN throw_error(c, "Too much code to jump over") ELSE c,
                  code_size(context.chunk) < jump_code_offset + 3)
    IN  set_context(c1, [curr_context(c1) EXCEPT !.chunk =
            update_code(update_code(@, jump_code_offset + 1, jump_count % 256),
                        jump_code_offset + 2, (jump_count \div 256) % 256)])

\* patch_back with the jump counted one byte too long
patch_back_off_by_one(c, jump_code, start_code_offset) ==
    LET context    == curr_context(c)
        jump_count == usize_add(usize_sub(code_size(context.chunk),
                                          start_code_offset), 3)
    IN  emit(emit(emit(c, jump_code), jump_count % 256),
             (jump_count \div 256) % 256)

patch_back(c, jump_code, start_code_offset) ==
    LET context    == curr_context(c)
        jump_count == usize_add(usize_sub(code_size(context.chunk),
                                          start_code_offset), 2)
        c1 == mark_overflow(
                  IF jump_count > 65535
                  THEN throw_error(c, "Too much code to jump over") ELSE c,
                  code_size(context.chunk) < start_code_offset)
    IN  emit(emit(emit(c1, jump_code), jump_count % 256),
             (jump_count \div 256) % 256)

-----------------------------------------------------------------------------
(* compiler.rs: expressions *)

RECURSIVE parse_precedence(_, _), infix_loop(_, _), parse_expression(_),
          parse_grouping(_), parse_variable(_), parse_unary(_),
          parse_binary(_), parse_and(_), parse_or(_), parse_call(_),
          call_turn(_), call_loop(_, _)

\* str::parse::<f64> on the digits of a Number lexeme
RECURSIVE parse_f64(_)
parse_f64(lexeme) ==
    IF lexeme = <<>> THEN 0
    ELSE 10 * parse_f64(SubSeq(lexeme, 1, Len(lexeme) - 1))
         + (lexeme[Len(lexeme)] - 48)

set_chunk(c, chunk) == set_context(c, [curr_context(c) EXCEPT !.chunk = chunk])

parse_expression(c) ==
    IF c.current.type # "Eof"
    THEN parse_precedence(c, Precedence.Assignment) ELSE c

parse_grouping(c) ==
    consume(parse_expression(c), "RightParen", "Expect ')' after expression")

parse_number(c) ==
    LET c1    == emit(c, OpCode.Number)
        chunk == curr_context(c1).chunk
    IN  IF pool_has_room(chunk.numbers)
        THEN emit(set_chunk(c1, add_number(chunk, parse_f64(c.previous.lexeme))),
                  Len(chunk.numbers))
        ELSE throw_error(c1, "Too many numbers in one chunk")

parse_string(c) ==
    LET c1         == emit(c, OpCode.String)
        chunk      == curr_context(c1).chunk
        string_len == Len(c.previous.lexeme)
        string     == IF string_len > 2
                      THEN SubSeq(c.previous.lexeme, 2, string_len - 1)
                      ELSE <<>>
    IN  IF string_len >= 2
        THEN IF pool_has_room(chunk.strings)
             THEN emit(set_chunk(c1, add_string(chunk, string)),
                       Len(chunk.strings))
             ELSE throw_error(c1, "Too many strings in one chunk")
        ELSE throw_error(c1, "Expect string Error")

parse_literal(c) ==
    CASE c.previous.type = "Nil" -> emit(c, OpCode.Nil)
      [] c.previous.type = "True" -> emit(c, OpCode.True)
      [] c.previous.type = "False" -> emit(c, OpCode.False)
      [] OTHER -> throw_error(c, "Expect literal Error")

\* the search of parse_variable run from the outermost block scope inwards
local_depth_outermost(context, lexeme, curr_depth) ==
    LET declaring == { depth \in 1..curr_depth :
                         lexeme \in DOMAIN context.variables[depth] }
    IN  IF declaring = {} THEN 0
        ELSE CHOOSE depth \in declaring : \A other \in declaring : depth <= other

\* the loop of parse_variable: the innermost depth >= 1 of the context that
\* declares the lexeme, or 0 when none does
RECURSIVE local_depth(_, _, _)
local_depth(context, lexeme, curr_depth) ==
    IF curr_depth < 1 THEN 0
    ELSE IF lexeme \in DOMAIN context.variables[curr_depth] THEN curr_depth
    ELSE local_depth(context, lexeme, curr_depth - 1)

\* the tail shared by both arms of parse_variable: [= expression] Set | Get,
\* then the variables-pool index of the slot
variable_access(c, slot, set_code, get_code) ==
    LET c1 == IF c.current.type = "Equal"
              THEN emit(parse_expression(advance(c)), set_code)
              ELSE emit(c, get_code)
        chunk == curr_context(c1).chunk
    IN  IF pool_has_room(chunk.variables)
        THEN emit(set_chunk(c1, add_variable(chunk, slot)),
                  Len(chunk.variables))
        ELSE throw_error(c1, "Too many variable slots in one chunk")

parse_variable(c) ==
    LET context   == curr_context(c)
        lexeme    == c.previous.lexeme
        depth     == local_depth(context, lexeme, context.depth)
        root_map  == root_context(c).variables[0]
    IN  IF depth >= 1
        THEN variable_access(c, context.variables[depth][lexeme],
                             OpCode.SetLocal, OpCode.GetLocal)
        ELSE IF lexeme \in DOMAIN root_map
        THEN variable_access(c, root_map[lexeme],
                             OpCode.SetGlobal, OpCode.GetGlobal)
        ELSE throw_error(c, "Undefined variable Error")

parse_unary(c) ==
    LET unary_token == c.previous
        c1 == parse_precedence(c, Precedence.Unary)
    IN  CASE unary_token.type = "Minus" -> emit(c1, OpCode.Negate)
          [] unary_token.type = "Bang" -> emit(c1, OpCode.Not)
          [] OTHER -> throw_error(c1, "Expect unary Error")

parse_binary(c) ==
    LET type == c.previous.type
        c1 == parse_precedence(c, promote(rule_precedence(type)))
    IN  CASE type = "Plus" -> emit(c1, OpCode.Addition)
          [] type = "Minus" -> emit(c1, OpCode.Subtract)
          [] type = "Star" -> emit(c1, OpCode.Multiply)
          [] type = "Slash" -> emit(c1, OpCode.Divide)
          [] type = "BangEqual" -> emit(emit(c1, OpCode.Equal), OpCode.Not)
          [] type = "EqualEqual" -> emit(c1, OpCode.Equal)
          [] type = "Greater" -> emit(c1, OpCode.Greater)
          [] type = "GreaterEqual" -> emit(emit(c1, OpCode.Less), OpCode.Not)
          [] type = "Less" -> emit(c1, OpCode.Less)
          [] type = "LessEqual" -> emit(emit(c1, OpCode.Greater), OpCode.Not)
          [] OTHER -> throw_error(c1, "Expect binary Error")

parse_and(c) ==
    LET jump_code_offset == code_size(curr_context(c).chunk)
        c1 == emit(patch_forward_begin(c, OpCode.JumpFalse), OpCode.Pop)
    IN  patch_forward_end(parse_precedence(c1, Precedence.And),
                          jump_code_offset)

\* `or` without its jumps: the left value dropped, the right operand compiled
parse_or_eager(c) == parse_precedence(emit(c, OpCode.Pop), Precedence.Or)

parse_or(c) ==
    LET jump_false_code_offset == code_size(curr_context(c).chunk)
        c1 == patch_forward_begin(c, OpCode.JumpFalse)
        jump_end_code_offset == code_size(curr_context(c1).chunk)
        c2 == patch_forward_begin(c1, OpCode.Jump)
        c3 == emit(patch_forward_end(c2, jump_false_code_offset), OpCode.Pop)
    IN  patch_forward_end(parse_precedence(c3, Precedence.Or),
                          jump_end_code_offset)

\* one turn of the argument loop of parse_call; arg_cout is a u8, and the
\* increment follows the error report unconditionally
call_turn(s) ==
    LET c1 == parse_expression(s.c)
        c2 == mark_overflow(
                  IF s.arg_cout = 255
                  THEN throw_error(c1, "Can't have more than 255 params")
                  ELSE c1,
                  s.arg_cout = 255)
        n  == (s.arg_cout + 1) % 256
    IN  IF c2.current.type = "Comma"
        THEN [c |-> advance(c2), arg_cout |-> n, go |-> TRUE]
        ELSE [c |-> c2, arg_cout |-> n, go |-> FALSE]

\* n turns of the argument loop, or fewer when it breaks
RECURSIVE call_turns(_, _)
call_turns(s, n) ==
    IF n = 0 \/ ~s.go THEN s
    ELSE IF n = 1 THEN call_turn(headed(s, "arguments"))
    ELSE call_turns(call_turns(s, n \div 2), n - (n \div 2))

\* the argument loop: it turns until the break, once per argument; the first
\* turns one by one, the later ones in runs of 8, 16, 32, ... turns
call_loop(s, n) ==
    IF ~s.go THEN headed(s, "arguments")
    ELSE IF n < 8 THEN call_loop(call_turn(headed(s, "arguments")), n + 1)
    ELSE call_loop(call_turns(s, n), 2 * n)

parse_call(c) ==
    LET args == IF c.current.type # "RightParen"
                THEN call_loop([c |-> loop_begin(c), arg_cout |-> 0,
                                go |-> TRUE], 1)
                ELSE [c |-> c, arg_cout |-> 0, go |-> FALSE]
        c1 == consume(args.c, "RightParen", "Expect ')' after arguments.")
    IN  emit(emit(c1, OpCode.Call), args.arg_cout)

prefix_rule(c, name) ==
    CASE name = "parse_grouping" -> parse_grouping(c)
      [] name = "parse_unary" -> parse_unary(c)
      [] name = "parse_number" -> parse_number(c)
      [] name = "parse_literal" -> parse_literal(c)
      [] name = "parse_string" -> parse_string(c)
      [] name = "parse_variable" -> parse_variable(c)
      [] OTHER -> throw_error(c, "Expect prefix error")

infix_rule(c, name) ==
    CASE name = "parse_call" -> parse_call(c)
      [] name = "parse_binary" -> parse_binary(c)
      [] name = "parse_and" -> parse_and(c)
      [] name = "parse_or" -> parse_or(c)
      [] OTHER -> c

infix_loop(c, precedence) ==
    IF precedence <= rule_precedence(c.current.type)
    THEN LET c1 == advance(loop_head(c, "parse_precedence", TRUE))
         IN  infix_loop(infix_rule(c1, rule_infix(c1.previous.type)),
                        precedence)
    ELSE loop_head(c, "parse_precedence", FALSE)

parse_precedence(c, precedence) ==
    LET c1 == advance(loop_begin(c))
    IN  infix_loop(prefix_rule(c1, rule_prefix(c1.previous.type)), precedence)

-----------------------------------------------------------------------------
(* compiler.rs: statements *)

RECURSIVE statement(_), declaration(_), block_statement(_), block_loop(_, _),
          block_turns(_, _),
          if_statement(_), while_statement(_), for_statement(_),
          function_statement(_), param_loop(_, _)

print_statement(c) ==
    emit(consume(parse_expression(c), "Semicolon",
                 "Expect ';' after print value"), OpCode.PrintValue)

expression_statement(c) ==
    emit(consume(parse_expression(c), "Semicolon",
                 "Expect ';' after expression"), OpCode.Pop)

\* define_variable giving every global the slot 0
define_variable_one_slot(c, lexeme, curr_depth) ==
    LET context == curr_context(c)
    IN  IF curr_depth = 0
        THEN IF pool_has_room(context.chunk.variables)
             THEN emit(emit(set_context(c,
                      [context EXCEPT
                          !.chunk = add_variable(@, 0),
                          !.variables[curr_depth] = map_insert(@, lexeme, 0)]),
                      OpCode.DefineGlobal), Len(context.chunk.variables))
             ELSE throw_error(c, "Too many variable slots in one chunk")
        ELSE set_context(c,
                 [context EXCEPT
                     !.variables[curr_depth] =
                         map_insert(@, lexeme, context.local_count),
                     !.local_count = @ + 1])

\* the binding made at the end of variable_statement, after the ';'
define_variable(c, lexeme, curr_depth) ==
    LET context == curr_context(c)
        curr_variable_map == context.variables[curr_depth]
        global_slot == Cardinality(DOMAIN curr_variable_map)
    IN  IF curr_depth = 0
        THEN IF pool_has_room(context.chunk.variables)
             THEN emit(emit(set_context(c,
                      [context EXCEPT
                          !.chunk = add_variable(@, global_slot),
                          !.variables[curr_depth] =
                              map_insert(@, lexeme, global_slot)]),
                      OpCode.DefineGlobal), Len(context.chunk.variables))
             ELSE throw_error(c, "Too many variable slots in one chunk")
        ELSE set_context(c,
                 [context EXCEPT
                     !.variables[curr_depth] =
                         map_insert(@, lexeme, context.local_count),
                     !.local_count = @ + 1])

\* variable_statement without the look-up in the map of the current scope
variable_statement_unchecked(c) ==
    LET c1 == advance(c)
    IN  define_variable(
            consume(IF c1.current.type = "Equal"
                    THEN parse_expression(advance(c1))
                    ELSE emit(c1, OpCode.Nil),
                    "Semicolon", "Expect ';' after variable statement"),
            c1.previous.lexeme, curr_context(c1).depth)

variable_statement(c) ==
    IF c.current.type = "Identifier"
    THEN LET c1 == advance(c)
             lexeme == c1.previous.lexeme
             curr_depth == curr_context(c1).depth
             c2 == IF c1.current.type = "Equal"
                   THEN parse_expression(advance(c1))
                   ELSE emit(c1, OpCode.Nil)
             c3 == consume(c2, "Semicolon",
                           "Expect ';' after variable statement")
         IN  IF lexeme \in DOMAIN curr_context(c1).variables[curr_depth]
             THEN throw_error(c1, "Redefined identifier in curr space")
             ELSE define_variable(c3, lexeme, curr_depth)
    ELSE throw_error(c, "Expect variable error")

\* n turns of the loop of block_statement, or fewer when it ends
block_turns(c, n) ==
    IF n = 0 \/ c.current.type = "RightBrace" \/ c.current.type = "Eof" THEN c
    ELSE IF n = 1 THEN declaration(loop_head(c, "block_statement", TRUE))
    ELSE block_turns(block_turns(c, n \div 2), n - (n \div 2))

\* the loop of block_statement: the first turns one by one, the later ones in
\* runs of 8, 16, 32, ... turns
block_loop(c, n) ==
    IF c.current.type = "RightBrace" \/ c.current.type = "Eof"
    THEN loop_head(c, "block_statement", FALSE)
    ELSE IF n < 8
    THEN block_loop(declaration(loop_head(c, "block_statement", TRUE)), n + 1)
    ELSE block_loop(block_turns(c, n), 2 * n)

block_statement(c) ==
    scoop_end(consume(block_loop(loop_begin(scoop_begin(c)), 1), "RightBrace",
                      "Expect '}' after block"))

if_statement(c) ==
    LET c1 == consume(parse_expression(
                  consume(c, "LeftParen", "Expect '(' after 'if'")),
                  "RightParen", "Expect ')' after condition")
        jump_false_code_offset == code_size(curr_context(c1).chunk)
        c2 == statement(emit(patch_forward_begin(c1, OpCode.JumpFalse),
                             OpCode.Pop))
        jump_code_offset == code_size(curr_context(c2).chunk)
        c3 == emit(patch_forward_end(patch_forward_begin(c2, OpCode.Jump),
                                     jump_false_code_offset), OpCode.Pop)
        c4 == IF c3.current.type = "Else" THEN statement(advance(c3)) ELSE c3
    IN  patch_forward_end(c4, jump_code_offset)

while_statement(c) ==
    LET size == code_size(curr_context(c).chunk)
        start_code_offset == usize_sub(size, 1)
        c1 == consume(parse_expression(
                  consume(mark_overflow(c, size < 1), "LeftParen",
                          "Expect '(' after 'while'")),
                  "RightParen", "Expect ')' after condition")
        jump_false_code_offset == code_size(curr_context(c1).chunk)
        c2 == statement(emit(patch_forward_begin(c1, OpCode.JumpFalse),
                             OpCode.Pop))
        c3 == patch_back(c2, OpCode.JumpBack, start_code_offset)
    IN  emit(patch_forward_end(c3, jump_false_code_offset), OpCode.Pop)

return_statement(c) ==
    LET c1 == IF Len(curr_context(c).function_name) = 0
              THEN throw_error(c, "Can't return from top-level code") ELSE c
    IN  IF c1.current.type = "Semicolon"
        THEN emit(emit(advance(c1), OpCode.Nil), OpCode.Return)
        ELSE emit(consume(parse_expression(c1), "Semicolon",
                          "Expect ';' after return value."), OpCode.Return)

statement(c) ==
    CASE c.current.type = "Var" -> variable_statement(advance(c))
      [] c.current.type = "Print" -> print_statement(advance(c))
      [] c.current.type = "LeftBrace" -> block_statement(advance(c))
      [] c.current.type = "If" -> if_statement(advance(c))
      [] c.current.type = "While" -> while_statement(advance(c))
      [] c.current.type = "For" -> for_statement(advance(c))
      [] c.current.type = "Fun" -> function_statement(advance(c))
      [] c.current.type = "Return" -> return_statement(advance(c))
      [] OTHER -> expression_statement(c)

declaration(c) == error_synchronize(statement(c))

\* for_statement, lines 596-610: the body, the jump back to the increment or
\* the condition, and the exit of the loop
for_body(c, start_code_offset, has_condition, jump_false_code_offset) ==
    LET c8 == patch_back(statement(c), OpCode.JumpBack, start_code_offset)
    IN  scoop_end(IF has_condition
                  THEN emit(patch_forward_end(c8, jump_false_code_offset),
                            OpCode.Pop)
                  ELSE c8)

\* for_statement, lines 583-594: the increment clause, compiled ahead of the
\* body and jumped over on the way in
for_increment(c4, cond_code_offset, has_condition, jump_false_code_offset) ==
    LET jump_code_offset == code_size(curr_context(c4).chunk)
        c5 == patch_forward_begin(c4, OpCode.Jump)
        increment_code_offset == usize_sub(code_size(curr_context(c5).chunk), 1)
        c6 == consume(emit(parse_expression(c5), OpCode.Pop), "RightParen",
                      "Expect ')' after for clauses")
    IN  IF c4.current.type # "RightParen"
        THEN for_body(patch_forward_end(
                          patch_back(c6, OpCode.JumpBack, cond_code_offset),
                          jump_code_offset),
                      increment_code_offset, has_condition,
                      jump_false_code_offset)
        ELSE for_body(advance(c4), cond_code_offset, has_condition,
                      jump_false_code_offset)

\* for_statement, lines 568-581: code_size() - 1 as the loop start, then the
\* condition clause
for_condition(c2) ==
    LET size == code_size(curr_context(c2).chunk)
        cond_code_offset == usize_sub(size, 1)
        c3 == consume(parse_expression(mark_overflow(c2, size < 1)),
                      "Semicolon", "Expect ';'")
    IN  IF c2.current.type # "Semicolon"
        THEN for_increment(
                 emit(patch_forward_begin(c3, OpCode.JumpFalse), OpCode.Pop),
                 cond_code_offset, TRUE, code_size(curr_context(c3).chunk))
        ELSE for_increment(advance(mark_overflow(c2, size < 1)),
                           cond_code_offset, FALSE, 0)

\* for_statement, lines 553-566: the scope, '(' and the initializer clause
for_initializer(c) ==
    LET c1 == consume(scoop_begin(c), "LeftParen", "Expect '(' after 'for'")
    IN  CASE c1.current.type = "Semicolon" -> advance(c1)
          [] c1.current.type = "Var" -> variable_statement(advance(c1))
          [] OTHER -> expression_statement(c1)

for_statement(c) == for_condition(for_initializer(c))

\* one turn of the parameter loop of function_statement, in the function's own
\* context; go = the turn did not end in a break
param_turn(s, curr_depth) ==
    LET c1 == set_context(s.c, [curr_context(s.c) EXCEPT !.params_num = @ + 1])
        c2 == advance(c1)
        context == curr_context(c2)
        c3 == set_context(c2,
                  [context EXCEPT
                      !.variables[curr_depth] =
                          map_insert(@, c2.previous.lexeme, context.local_count),
                      !.local_count = @ + 1])
    IN  IF c1.current.type = "Identifier"
        THEN IF c2.previous.lexeme \in DOMAIN context.variables[curr_depth]
             THEN [c |-> throw_error(c2, "Redefined param in curr function"),
                   go |-> FALSE]
             ELSE IF c3.current.type = "Comma"
                  THEN [c |-> advance(c3), go |-> TRUE]
                  ELSE [c |-> c3, go |-> FALSE]
        ELSE [c |-> throw_error(c1, "Expect function param error"),
              go |-> FALSE]

\* up to n turns of the loop, the first half of them before the second
RECURSIVE param_turns(_, _, _)
param_turns(s, curr_depth, n) ==
    IF n = 0 \/ ~s.go THEN s
    ELSE IF n = 1 THEN param_turn(headed(s, "parameters"), curr_depth)
    ELSE param_turns(param_turns(s, curr_depth, n \div 2), curr_depth,
                     n - (n \div 2))

\* the parameter loop: it turns until a break, once per parameter; the first
\* turns one by one, the later ones in runs of 8, 16, 32, ... turns
RECURSIVE param_runs(_, _, _)
param_runs(s, curr_depth, n) ==
    IF ~s.go THEN headed(s, "parameters")
    ELSE IF n < 8
    THEN param_runs(param_turn(headed(s, "parameters"), curr_depth),
                    curr_depth, n + 1)
    ELSE param_runs(param_turns(s, curr_depth, n), curr_depth, 2 * n)

param_loop(c, curr_depth) ==
    param_runs([c |-> loop_begin(c), go |-> TRUE], curr_depth, 1).c

\* function_statement, lines 633-652: the name is bound in the enclosing context
bind_function_name(context, lexeme) ==
    LET curr_depth == context.depth
        curr_variable_map == context.variables[curr_depth]
    IN  IF curr_depth = 0
        THEN [context EXCEPT !.variables[curr_depth] =
                 map_insert(@, lexeme, Cardinality(DOMAIN curr_variable_map))]
        ELSE [context EXCEPT
                 !.variables[curr_depth] =
                     map_insert(@, lexeme, context.local_count),
                 !.local_count = @ + 1]

\* function_statement, lines 717-761: Function idx [DefineGlobal idx] in the
\* enclosing context
emit_function(c, function, lexeme) ==
    LET c1 == emit(c, OpCode.Function)
        chunk == curr_context(c1).chunk
        c2 == IF pool_has_room(chunk.functions)
              THEN emit(set_chunk(c1, add_function(chunk, function)),
                        Len(chunk.functions))
              ELSE throw_error(c1, "Too many function in one chunk")
        context == curr_context(c2)
        global_slot == context.variables[0][lexeme]
    IN  IF context.depth = 0
        THEN IF pool_has_room(context.chunk.variables)
             THEN emit(emit(set_chunk(c2,
                                add_variable(context.chunk, global_slot)),
                            OpCode.DefineGlobal),
                       Len(context.chunk.variables))
             ELSE throw_error(c2, "Too many variable slots in one chunk")
        ELSE c2

\* function_statement, lines 614-712: from the name to the '{' of the body,
\* for a name the current scope does not declare
function_head(c) ==
    LET c0 == IF Len(curr_context(c).function_name) # 0
              THEN throw_error(c, "function define only in top-level code")
              ELSE c
        c1 == advance(c0)
        lexeme == c1.previous.lexeme
        context == curr_context(c1)
        c2 == scoop_begin(push_context(
                  set_context(c1, bind_function_name(context, lexeme))))
        c3 == consume(
                  set_context(c2, [curr_context(c2) EXCEPT
                                      !.function_name = lexeme]),
                  "LeftParen", "Expect '(' after function name")
        c4 == IF c3.current.type # "RightParen"
              THEN param_loop(c3, curr_context(c3).depth) ELSE c3
    IN  consume(consume(c4, "RightParen", "Expect ')' after parameters"),
                "LeftBrace", "Expect '{' before function body")

function_statement(c) ==
    LET c0 == IF Len(curr_context(c).function_name) # 0
              THEN throw_error(c, "function define only in top-level code")
              ELSE c
        c1 == advance(c0)
        lexeme == c1.previous.lexeme
        context == curr_context(c1)
        c5 == block_statement(function_head(c))
    IN  IF c0.current.type = "Identifier"
        THEN IF lexeme \in DOMAIN context.variables[context.depth]
             THEN throw_error(c1, "Redefined identifier in curr space")
             ELSE emit_function(compile_end(c5), finished_function(c5), lexeme)
        ELSE throw_error(c0, "Expect function error")

-----------------------------------------------------------------------------
(* compiler.rs: compile *)

\* n turns of the loop of compile, or fewer when Eof is the current token
RECURSIVE compile_turns(_, _)
compile_turns(c, n) ==
    IF n = 0 \/ c.current.type = "Eof" THEN c
    ELSE IF n = 1 THEN declaration(loop_head(c, "compile", TRUE))
    ELSE compile_turns(compile_turns(c, n \div 2), n - (n \div 2))

\* while !match(Eof) { declaration() }: the first turns one by one, the later
\* ones in runs of 8, 16, 32, ... turns
RECURSIVE compile_loop(_, _)
compile_loop(c, n) ==
    IF c.current.type = "Eof" THEN advance(loop_head(c, "compile", FALSE))
    ELSE IF n < 8
    THEN compile_loop(declaration(loop_head(c, "compile", TRUE)), n + 1)
    ELSE compile_loop(compile_turns(c, n), 2 * n)

\* Compiler::compile: ok = Ok(function); overflowed = a usize or u8 operation
\* over- or underflowed on the way (a panic when overflow checks are on)
\* compile deciding on the panic flag, which error_synchronize clears
compile_result_panic_flag(c2) ==
    LET c3 == consume(compile_end(c2), "Eof", "Expect end of expression")
    IN  [ ok |-> ~c3.is_panic, function |-> finished_function(c2),
          errors |-> c3.errors, overflowed |-> c3.overflowed,
          idle |-> c3.idle, marks |-> c3.marks,
          at_eof |-> c3.current.type = "Eof" ]

compile_result(c2) ==
    LET c3 == consume(compile_end(c2), "Eof", "Expect end of expression")
    IN  [ ok |-> ~c3.had_error, function |-> finished_function(c2),
          errors |-> c3.errors, overflowed |-> c3.overflowed,
          idle |-> c3.idle, marks |-> c3.marks,
          at_eof |-> c3.current.type = "Eof" ]

\* Compiler::compile, lines 256-265: the compiler at the first token
compile_begin(source) ==
    LET c0 == push_context(NewCompiler(source))
    IN  advance(set_context(c0,
            [curr_context(c0) EXCEPT
                !.variables = map_insert(@, 0, EmptyMap)]))

compile(source) ==
    compile_result(compile_loop(loop_begin(compile_begin(source)), 1))

-----------------------------------------------------------------------------
(* scanner.rs: sources are given word by word; scan_token classifies a word *)

\* the characters of the identifiers, number and string literals the model's
\* sources use (34 is the double quote)
Spelling ==
    [ a |-> <<97>>, b |-> <<98>>, c |-> <<99>>, f |-> <<102>>, g |-> <<103>>,
      i |-> <<105>>, n |-> <<110>>, x |-> <<120>>, y |-> <<121>>,
      z |-> <<122>>, fact |-> <<102, 97, 99, 116>>,
      n0 |-> <<48>>, n1 |-> <<49>>, n2 |-> <<50>>, n3 |-> <<51>>,
      n6 |-> <<54>>, n12 |-> <<49, 50>>,
      s |-> <<34, 34>>, sa |-> <<34, 97, 34>>, sb |-> <<34, 98, 34>> ]

Punctuation ==
    [ lparen |-> "LeftParen", rparen |-> "RightParen", lbrace |-> "LeftBrace",
      rbrace |-> "RightBrace", semi |-> "Semicolon", comma |-> "Comma",
      dot |-> "Dot", plus |-> "Plus", minus |-> "Minus", star |-> "Star",
      slash |-> "Slash", bangeq |-> "BangEqual", bang |-> "Bang",
      eqeq |-> "EqualEqual", eq |-> "Equal", le |-> "LessEqual",
      lt |-> "Less", ge |-> "GreaterEqual", gt |-> "Greater" ]

Keywords ==
    [ var |-> "Var", nil |-> "Nil", true |-> "True", false |-> "False",
      and |-> "And", or |-> "Or", if |-> "If", else |-> "Else",
      while |-> "While", for |-> "For", fun |-> "Fun", print |-> "Print",
      return |-> "Return", class |-> "Class", this |-> "This",
      super |-> "Super" ]

\* the most parameters the language allows a function
MaxParams == 255

\* the decimal digits of n, as characters
RECURSIVE digits(_)
digits(n) ==
    IF n < 10 THEN <<48 + n>> ELSE digits(n \div 10) \o <<48 + (n % 10)>>

\* the words p1, p2, ... name the identifiers of long parameter lists
ParamWord(n) == "p" \o ToString(n)

ParamSpelling == [word \in { ParamWord(n) : n \in 1..(PoolCap + 1) } |->
                    <<112>> \o digits(CHOOSE n \in 1..(PoolCap + 1) :
                                          ParamWord(n) = word)]

\* Scanner::scan_token on one word of the source
scan_word(word) ==
    CASE word \in DOMAIN Punctuation -> Token(Punctuation[word], <<>>)
      [] word \in DOMAIN Keywords -> Token(Keywords[word], <<>>)
      [] word \in DOMAIN ParamSpelling -> Token("Identifier", ParamSpelling[word])
      [] word \in DOMAIN Spelling ->
            LET text == Spelling[word]
            IN  Token(CASE text[1] = 34 -> "String"
                        [] text[1] \in 48..57 -> "Number"
                        [] OTHER -> "Identifier", text)
      [] OTHER -> Token("Error", <<>>)

scan(words) == [k \in 1..Len(words) |-> scan_word(words[k])]

-----------------------------------------------------------------------------
(* value.rs *)

Nil == [tag |-> "Nil"]

Bool(b) == [tag |-> "Bool", b |-> b]

Number(n) == [tag |-> "Number", n |-> n]

String(s) == [tag |-> "String", s |-> s]

\* the variant vm.rs builds for OpCode::Function and for the script
Function(function) == [tag |-> "Function", function |-> function]

\* Option::None of a global slot
None == [tag |-> "None"]

Ok(v) == [ok |-> TRUE, value |-> v]

Err(msg) == [ok |-> FALSE, msg |-> msg]

\* String's PartialOrd: byte-wise lexicographic order
RECURSIVE string_less(_, _)
string_less(x, y) ==
    IF y = <<>> THEN FALSE
    ELSE IF x = <<>> THEN TRUE
    ELSE IF x[1] # y[1] THEN x[1] < y[1]
    ELSE string_less(Tail(x), Tail(y))

neg(x) ==
    IF x.tag = "Number" THEN Ok(Number(0 - x.n))
    ELSE Err("Neg operation error")

\* Add with the right string put before the left
add_reversed(x, y) ==
    CASE x.tag = "Number" /\ y.tag = "Number" -> Ok(Number(x.n + y.n))
      [] x.tag = "String" /\ y.tag = "String" -> Ok(String(y.s \o x.s))
      [] OTHER -> Err("Add operation error")

add(x, y) ==
    CASE x.tag = "Number" /\ y.tag = "Number" -> Ok(Number(x.n + y.n))
      [] x.tag = "String" /\ y.tag = "String" -> Ok(String(x.s \o y.s))
      [] OTHER -> Err("Add operation error")

sub(x, y) ==
    IF x.tag = "Number" /\ y.tag = "Number" THEN Ok(Number(x.n - y.n))
    ELSE Err("Sub operation error")

mul(x, y) ==
    IF x.tag = "Number" /\ y.tag = "Number" THEN Ok(Number(x.n * y.n))
    ELSE Err("Mul operation error")

\* f64 division, on the exact quotients of the model's sources
div(x, y) ==
    IF x.tag = "Number" /\ y.tag = "Number" THEN Ok(Number(x.n \div y.n))
    ELSE Err("Div operation error")

\* what `!` gives for the variant value.rs does not list
not_function(x) == Ok(Bool(FALSE))

not(x) ==
    CASE x.tag = "Bool" -> Ok(Bool(~x.b))
      [] x.tag = "Nil" -> Ok(Bool(TRUE))
      [] x.tag = "Number" -> Ok(Bool(x.n = 0))
      [] x.tag = "String" -> Ok(Bool(Len(x.s) = 0))
      [] OTHER -> not_function(x)

equal(x, y) ==
    CASE x.tag = "Number" /\ y.tag = "Number" -> Ok(Bool(x.n = y.n))
      [] x.tag = "Bool" /\ y.tag = "Bool" -> Ok(Bool(x.b = y.b))
      [] x.tag = "Nil" /\ y.tag = "Nil" -> Ok(Bool(0 = 0))
      [] x.tag = "String" /\ y.tag = "String" -> Ok(Bool(x.s = y.s))
      [] OTHER -> Err("Equal operation error")

\* bool's PartialOrd: false < true
less(x, y) ==
    CASE x.tag = "Number" /\ y.tag = "Number" -> Ok(Bool(x.n < y.n))
      [] x.tag = "Bool" /\ y.tag = "Bool" -> Ok(Bool(~x.b /\ y.b))
      [] x.tag = "Nil" /\ y.tag = "Nil" -> Ok(Bool(0 < 0))
      [] x.tag = "String" /\ y.tag = "String" -> Ok(Bool(string_less(x.s, y.s)))
      [] OTHER -> Err("Less operation error")

greater(x, y) ==
    CASE x.tag = "Number" /\ y.tag = "Number" -> Ok(Bool(x.n > y.n))
      [] x.tag = "Bool" /\ y.tag = "Bool" -> Ok(Bool(x.b /\ ~y.b))
      [] x.tag = "Nil" /\ y.tag = "Nil" -> Ok(Bool(0 > 0))
      [] x.tag = "String" /\ y.tag = "String" -> Ok(Bool(string_less(y.s, x.s)))
      [] OTHER -> Err("Greater operation error")

\* Value::bool_value, which vm.rs calls and value.rs does not define: only
\* false and nil are falsey
bool_value(x) ==
    CASE x.tag = "Bool" -> x.b
      [] x.tag = "Nil" -> FALSE
      [] OTHER -> TRUE

-----------------------------------------------------------------------------
(* The sources the model interprets, word by word. *)

\* p1, p2, ... pn separated by commas
param_words(n) ==
    [k \in 1..(2 * n - 1) |->
        IF k % 2 = 1 THEN ParamWord((k + 1) \div 2) ELSE "comma"]

Curated ==
    << <<"print", "n1", "plus", "n2", "star", "n3", "semi">>,
       <<"print", "sa", "plus", "sb", "semi",
         "print", "minus", "lparen", "n6", "slash", "n3", "rparen", "minus",
         "n1", "star", "n2", "semi">>,
       <<"var", "x", "eq", "n1", "semi",
         "lbrace", "var", "x", "eq", "n2", "semi", "print", "x", "semi",
         "x", "eq", "n3", "semi", "rbrace", "print", "x", "semi">>,
       <<"var", "i", "eq", "n0", "semi",
         "while", "lparen", "i", "lt", "n2", "rparen", "lbrace",
         "print", "i", "semi", "i", "eq", "i", "plus", "n1", "semi",
         "rbrace">>,
       <<"fun", "fact", "lparen", "n", "rparen", "lbrace",
         "if", "lparen", "n", "le", "n1", "rparen", "return", "n1", "semi",
         "return", "n", "star", "fact", "lparen", "n", "minus", "n1",
         "rparen", "semi", "rbrace",
         "print", "fact", "lparen", "n2", "rparen", "semi">>,
       <<"print", "nil", "or", "sa", "semi",
         "print", "false", "and", "n1", "semi">>,
       <<"lbrace", "if", "lparen", "false", "rparen",
         "var", "x", "eq", "n1", "semi", "rbrace">>,
       <<"fun", "f", "lparen", "rparen", "lbrace",
         "if", "lparen", "false", "rparen", "var", "x", "eq", "n1", "semi",
         "if", "lparen", "false", "rparen", "var", "y", "eq", "n1", "semi",
         "rbrace", "f", "lparen", "rparen", "semi">>,
       <<"fun", "f", "lparen", "a", "rparen", "lbrace",
         "return", "a", "semi", "rbrace", "f", "lparen", "rparen", "semi">>,
       <<"fun", "f", "lparen", "a", "rparen", "lbrace",
         "return", "n1", "semi", "rbrace",
         "print", "f", "lparen", "rparen", "semi">>,
       <<"fun", "f", "lparen", "a", "rparen", "lbrace",
         "return", "a", "semi", "rbrace",
         "print", "f", "lparen", "n1", "comma", "n2", "rparen", "semi">>,
       <<"var", "x", "eq", "n1", "semi", "x", "lparen", "rparen", "semi">>,
       <<"print", "minus", "nil", "semi">>,
       <<"print", "sa", "plus", "n1", "semi">>,
       <<"print", "bang", "n0", "semi">>,
       <<"print", "bang", "s", "semi">>,
       <<"print", "bang", "nil", "semi", "print", "bang", "n1", "semi",
         "print", "bang", "sa", "semi", "print", "bang", "true", "semi">>,
       <<"if", "lparen", "n0", "rparen", "print", "n1", "semi",
         "else", "print", "n2", "semi">>,
       <<"if", "lparen", "nil", "rparen", "print", "n1", "semi",
         "else", "print", "n2", "semi",
         "if", "lparen", "s", "rparen", "print", "n1", "semi">>,
       <<"print", "true", "lt", "false", "semi">>,
       <<"print", "nil", "gt", "nil", "semi">>,
       <<"print", "n1", "lt", "n2", "semi", "print", "sa", "lt", "sb", "semi",
         "print", "n2", "gt", "n1", "semi", "print", "sa", "gt", "s", "semi">>,
       <<"print", "n1", "lt", "sa", "semi">>,
       <<"print", "n1", "eqeq", "sa", "semi">>,
       <<"print", "nil", "eqeq", "false", "semi">>,
       <<"print", "n1", "eqeq", "n1", "semi", "print", "sa", "eqeq", "sb", "semi",
         "print", "nil", "eqeq", "nil", "semi",
         "print", "true", "bangeq", "false", "semi">>,
       <<"var", "a", "eq", "n1", "semi", "var", "b", "eq", "n2", "semi",
         "var", "c", "eq", "n3", "semi",
         "a", "plus", "b", "eq", "c", "semi", "print", "b", "semi">>,
       <<"var", "a", "eq", "n1", "semi", "var", "b", "eq", "n2", "semi",
         "a", "eq", "b", "semi", "print", "a", "semi">>,
       <<"for", "lparen", "var", "i", "eq", "n0", "semi",
         "i", "lt", "n2", "semi", "i", "eq", "i", "plus", "n1", "rparen",
         "print", "i", "semi">>,
       <<"while", "lparen", "false", "rparen", "print", "n1", "semi">>,
       <<"for", "lparen", "semi", "false", "semi", "rparen",
         "print", "n1", "semi">>,
       <<"if", "lparen", "false", "rparen", "var", "a", "eq", "n1", "semi",
         "print", "a", "semi">>,
       <<"if", "lparen", "false", "rparen", "var", "a", "eq", "n1", "semi",
         "a", "eq", "n2", "semi">>,
       <<"var", "i", "semi",
         "while", "lparen", "true", "rparen", "var", "a", "eq", "n1", "semi">>,
       <<"lbrace", "var", "x", "eq", "n1", "semi", "x", "eq", "n2", "semi",
         "print", "x", "semi", "rbrace">>,
       <<"print", "semi">>,
       <<"return", "n1", "semi">>,
       <<"print", "z", "semi">>,
       <<"if", "lparen", "true", "and", "false", "rparen", "print", "n1", "semi",
         "else", "if", "lparen", "false", "or", "true", "rparen",
         "print", "n2", "semi">>,
       <<"lbrace", "fun", "g", "lparen", "rparen", "lbrace",
         "return", "n1", "semi", "rbrace",
         "print", "g", "lparen", "rparen", "semi", "rbrace">>,
       <<"fun", "f", "lparen", "rparen", "lbrace",
         "fun", "g", "lparen", "rparen", "lbrace", "rbrace", "rbrace">>,
       <<"fun", "f", "lparen", "rparen", "lbrace", "return", "semi", "rbrace",
         "print", "f", "lparen", "rparen", "semi", "print", "bang", "f", "semi">>,
       <<"var", "a", "eq", "n1", "semi",
         "lbrace", "var", "b", "eq", "n2", "semi",
         "while", "lparen", "b", "gt", "n0", "rparen", "lbrace",
         "if", "lparen", "b", "eqeq", "n1", "rparen", "print", "a", "semi",
         "else", "print", "b", "semi",
         "b", "eq", "b", "minus", "n1", "semi", "rbrace", "rbrace">>,
       <<"print", "n1", "ge", "n2", "semi", "print", "n1", "le", "n2", "semi",
         "print", "n1", "bangeq", "n2", "semi">>,
       <<"fun", "f", "lparen", "rparen", "lbrace", "rbrace",
         "f", "lparen", "rparen", "lparen", "rparen", "semi">>,
       <<"fun", "f", "lparen", "a", "comma", "b", "rparen", "lbrace",
         "return", "b", "semi", "rbrace",
         "print", "n1", "plus", "f", "lparen", "n2", "comma", "n3", "rparen",
         "semi">>,
       <<"lbrace", "fun", "g", "lparen", "n", "rparen", "lbrace",
         "return", "g", "lparen", "n", "rparen", "semi", "rbrace", "rbrace">>,
       <<"var", "x", "eq", "n1", "semi",
         "lbrace", "var", "x", "eq", "n2", "semi", "print", "x", "semi", "rbrace",
         "print", "x", "semi">>,
       <<"var", "x", "eq", "n1", "semi",
         "lbrace", "var", "y", "eq", "n2", "semi",
         "lbrace", "var", "x", "eq", "n3", "semi",
         "print", "x", "semi", "print", "y", "semi", "rbrace",
         "print", "x", "semi", "print", "y", "semi", "rbrace">>,
       <<"lbrace", "var", "x", "eq", "n1", "semi",
         "lbrace", "var", "x", "eq", "n2", "semi", "print", "x", "semi", "rbrace",
         "print", "x", "semi", "rbrace">>,
       <<"lbrace", "var", "x", "eq", "n1", "semi", "rbrace",
         "print", "x", "semi">>,
       <<"var", "y", "eq", "n6", "semi",
         "lbrace", "var", "x", "eq", "n1", "semi",
         "lbrace", "print", "y", "semi", "print", "x", "semi", "rbrace",
         "rbrace">>,
       <<"var", "x", "eq", "n1", "semi", "var", "x", "eq", "n2", "semi",
         "var", "y", "eq", "n3", "semi", "print", "y", "semi">>,
       <<"lbrace", "var", "x", "eq", "n1", "semi", "var", "x", "eq", "n2", "semi",
         "var", "y", "eq", "n3", "semi", "print", "y", "semi", "rbrace">>,
       <<"fun", "f", "lparen", "rparen", "lbrace", "rbrace",
         "fun", "f", "lparen", "rparen", "lbrace", "rbrace">>,
       <<"lbrace", "var", "g", "eq", "n1", "semi",
         "fun", "g", "lparen", "rparen", "lbrace", "rbrace",
         "var", "y", "eq", "n2", "semi", "rbrace">>,
       <<"fun", "f", "lparen">> \o param_words(MaxParams + 1)
         \o <<"rparen", "lbrace", "rbrace">>,
       <<"fun", "f", "lparen", "a", "comma", "a", "rparen", "lbrace", "rbrace">>,
       <<"fun", "f", "lparen", "a", "comma", "b", "comma", "a", "rparen",
         "lbrace", "return", "b", "semi", "rbrace",
         "print", "f", "lparen", "n1", "comma", "n2", "comma", "n3", "rparen",
         "semi">>,
       <<"print", "n1", "minus", "n2", "minus", "n3", "semi">>,
       <<"var", "x", "eq", "sa", "semi",
         "fun", "f", "lparen", "a", "rparen", "lbrace",
         "var", "y", "eq", "sb", "semi", "y", "eq", "a", "semi",
         "x", "eq", "y", "semi", "return", "y", "semi", "rbrace",
         "print", "f", "lparen", "n1", "rparen", "semi">> >>

\* statements that stand on their own; every ordered pair of them is a source
Statements ==
    << <<"print", "n1", "semi">>,
       <<"lbrace", "var", "x", "eq", "n1", "semi",
         "if", "lparen", "x", "rparen", "print", "x", "semi", "rbrace">>,
       <<"while", "lparen", "false", "rparen", "print", "n1", "semi">>,
       <<"for", "lparen", "var", "i", "eq", "n0", "semi", "i", "lt", "n1", "semi",
         "i", "eq", "i", "plus", "n1", "rparen", "print", "i", "semi">>,
       <<"if", "lparen", "true", "rparen", "print", "n1", "semi",
         "else", "print", "n2", "semi">>,
       <<"print", "n1", "and", "n2", "or", "n3", "semi">>,
       <<"lbrace", "if", "lparen", "false", "rparen",
         "var", "x", "eq", "n1", "semi", "rbrace">>,
       <<"fun", "f", "lparen", "a", "rparen", "lbrace",
         "while", "lparen", "a", "rparen", "return", "a", "semi", "rbrace",
         "print", "f", "lparen", "n1", "rparen", "semi">>,
       <<"fun", "f", "lparen", "a", "comma", "b", "rparen", "lbrace",
         "var", "y", "eq", "a", "semi",
         "lbrace", "var", "z", "eq", "b", "semi", "print", "z", "semi",
         "rbrace", "return", "y", "semi", "rbrace",
         "lbrace", "var", "x", "eq", "n1", "semi",
         "fun", "g", "lparen", "rparen", "lbrace", "rbrace",
         "lbrace", "var", "i", "eq", "n2", "semi", "rbrace",
         "print", "x", "semi", "rbrace",
         "print", "f", "lparen", "n1", "comma", "n2", "rparen", "semi">> >>

Pairs ==
    [k \in 1..(Len(Statements) * Len(Statements)) |->
        Statements[((k - 1) \div Len(Statements)) + 1]
        \o Statements[((k - 1) % Len(Statements)) + 1]]

\* the left operands of the `or` and `and` sources
Operands == <<"true", "false", "nil", "n0", "n1", "s", "sa">>

\* var x = 1; print OPERAND or|and (x = 2); print x;
ShortCircuits ==
    [k \in 1..(2 * Len(Operands)) |->
        <<"var", "x", "eq", "n1", "semi",
          "print", Operands[((k - 1) \div 2) + 1],
          IF k % 2 = 1 THEN "or" ELSE "and",
          "lparen", "x", "eq", "n2", "rparen", "semi",
          "print", "x", "semi">>]

\* the operands of the `+` sources
AddOperands == <<"sa", "sb", "s", "n1", "true", "nil">>

\* print LEFT + RIGHT;
Additions ==
    [k \in 1..(Len(AddOperands) * Len(AddOperands)) |->
        <<"print", AddOperands[((k - 1) \div Len(AddOperands)) + 1], "plus",
          AddOperands[((k - 1) % Len(AddOperands)) + 1], "semi">>]

\* the operators of the two-operator sources
BinaryOperators == <<"plus", "minus", "star", "slash", "lt", "bangeq">>

\* print 6 OP1 3 OP2 1;
Binaries ==
    [k \in 1..(Len(BinaryOperators) * Len(BinaryOperators)) |->
        <<"print", "n6",
          BinaryOperators[((k - 1) \div Len(BinaryOperators)) + 1], "n3",
          BinaryOperators[((k - 1) % Len(BinaryOperators)) + 1], "n1",
          "semi">>]

\* the words of unit, n times over
repeated(unit, n) ==
    [k \in 1..(n * Len(unit)) |-> unit[((k - 1) % Len(unit)) + 1]]

\* fun p1() {} fun p2() {} ... fun pn() {}
function_words(n) ==
    [k \in 1..(6 * n) |->
        IF k % 6 = 2 THEN ParamWord((k + 4) \div 6)
        ELSE <<"fun", "f", "lparen", "rparen", "lbrace", "rbrace">>
                 [((k - 1) % 6) + 1]]

\* var p1; var p2; ... var pn;
global_words(n) ==
    [k \in 1..(3 * n) |->
        CASE k % 3 = 1 -> "var"
          [] k % 3 = 2 -> ParamWord((k + 1) \div 3)
          [] OTHER -> "semi"]

\* sources that fill a pool of the script's chunk to the cap, and one past it
PoolFillers ==
    << repeated(<<"n1", "semi">>, PoolCap),
       repeated(<<"n1", "semi">>, PoolCap + 1),
       repeated(<<"sa", "semi">>, PoolCap),
       repeated(<<"sa", "semi">>, PoolCap + 1),
       <<"var", "x", "semi">> \o repeated(<<"x", "semi">>, PoolCap - 1),
       <<"var", "x", "semi">> \o repeated(<<"x", "semi">>, PoolCap),
       global_words(PoolCap),
       global_words(PoolCap + 1),
       <<"lbrace">> \o function_words(PoolCap + 1) \o <<"semi", "rbrace">>
       \o repeated(<<"n1", "semi">>, PoolCap + 1)
       \o repeated(<<"sa", "semi">>, PoolCap + 2)
       \o <<"semi", "var", "x", "semi">>
       \o repeated(<<"x", "semi">>, PoolCap + 1) >>

\* the words in front of the call: none, or operands that are temporaries
\* below the callee when it is called
CallPrefixes == << <<>>, <<"n6", "plus">>, <<"n6", "plus", "n12", "star">> >>

ParamNames == <<"a", "b", "c">>

\* fun f(a, b, c) { return PARAM; } print PREFIX f(1, 2, 3);
ParamReads ==
    [k \in 1..(Len(CallPrefixes) * Len(ParamNames)) |->
        <<"fun", "f", "lparen", "a", "comma", "b", "comma", "c", "rparen",
          "lbrace", "return", ParamNames[((k - 1) % Len(ParamNames)) + 1],
          "semi", "rbrace", "print">>
        \o CallPrefixes[((k - 1) \div Len(ParamNames)) + 1]
        \o <<"f", "lparen", "n1", "comma", "n2", "comma", "n3", "rparen",
             "semi">>]

\* the numbers of arguments of the calls of ArgumentCalls
ArgumentCounts == <<0, 1, 2, 3, MaxParams, MaxParams + 1, MaxParams + 2>>

\* nil, nil, ..., nil: n arguments
argument_words(n) ==
    IF n = 0 THEN <<>> ELSE repeated(<<"nil", "comma">>, n - 1) \o <<"nil">>

\* fun f() {} f(nil, nil, ..., nil);
ArgumentCalls ==
    [k \in DOMAIN ArgumentCounts |->
        <<"fun", "f", "lparen", "rparen", "lbrace", "rbrace", "f", "lparen">>
        \o argument_words(ArgumentCounts[k]) \o <<"rparen", "semi">>]

\* sources that break off inside a loop of the compiler
BrokenOff ==
    << \* fun f(1) {}
       <<"fun", "f", "lparen", "n1", "rparen", "lbrace", "rbrace">>,
       \* fun f(a, 1) {} print 1;
       <<"fun", "f", "lparen", "a", "comma", "n1", "rparen", "lbrace",
         "rbrace", "print", "n1", "semi">>,
       \* fun f(a, a) {}
       <<"fun", "f", "lparen", "a", "comma", "a", "rparen", "lbrace",
         "rbrace">>,
       \* fun f(a,
       <<"fun", "f", "lparen", "a", "comma">>,
       \* fun f() {} f(
       <<"fun", "f", "lparen", "rparen", "lbrace", "rbrace", "f", "lparen">>,
       \* fun f() {} f(1,
       <<"fun", "f", "lparen", "rparen", "lbrace", "rbrace", "f", "lparen",
         "n1", "comma">>,
       \* fun f() {} f(1 2); print 1;
       <<"fun", "f", "lparen", "rparen", "lbrace", "rbrace", "f", "lparen",
         "n1", "n2", "rparen", "semi", "print", "n1", "semi">>,
       \* fun f() {} f(, 1);
       <<"fun", "f", "lparen", "rparen", "lbrace", "rbrace", "f", "lparen",
         "comma", "n1", "rparen", "semi">>,
       \* { print 1;
       <<"lbrace", "print", "n1", "semi">>,
       \* { {
       <<"lbrace", "lbrace">>,
       \* } print 1;
       <<"rbrace", "print", "n1", "semi">>,
       \* print
       <<"print">>,
       \* print 1 +
       <<"print", "n1", "plus">>,
       \* print 1 + ; print 2;
       <<"print", "n1", "plus", "semi", "print", "n2", "semi">>,
       \* var ; var x = 1
       <<"var", "semi", "var", "x", "eq", "n1">>,
       \* while (true
       <<"while", "lparen", "true">> >>

Sources ==
    Curated \o Pairs \o ShortCircuits \o Additions \o Binaries \o PoolFillers
    \o ParamReads \o ArgumentCalls \o BrokenOff

\* the sources interpreted one after another on one VM
SeqSources == { 1, 4, 5, 12, 13, 18, 35, 53 }

\* every source compiled once, by a fresh Compiler as in interpret_source
Compiled == [k \in DOMAIN Sources |-> compile(scan(Sources[k]))]

-----------------------------------------------------------------------------
(* vm.rs: the VM *)

\* VM::new, in either build
Init ==
    /\ frames = <<>>
    /\ stack = <<>>
    /\ globals = <<>>
    /\ result = "Idle"
    /\ out = <<>>
    /\ overflow_checks \in BOOLEAN
    /\ runs = 0
    /\ steps = 0
    /\ calls = <<>>
    /\ last = [op |-> "new", stack |-> <<>>, frames |-> <<>>,
               calls |-> <<>>, arg |-> 0]

\* size of VM::globals after interpret_source resizes it
GlobalsSize == 256

CallFrame(function, ip, slot) == [function |-> function, ip |-> ip, slot |-> slot]

curr_frame == frames[Len(frames)]

curr_chunk == curr_frame.function.chunk

curr_ip == curr_frame.ip

read_code(chunk, offset) == chunk.code[offset + 1]

\* the byte read_byte returns after the opcode
operand == read_code(curr_chunk, curr_ip + 1)

\* the u16 read_short returns after the opcode: low | (high << 8)
short_operand ==
    read_code(curr_chunk, curr_ip + 1) + 256 * read_code(curr_chunk, curr_ip + 2)

\* the frames with the current frame's ip moved over `bytes` bytes read
frames_after(bytes) == [frames EXCEPT ![Len(frames)].ip = @ + bytes]

Front(seq) == SubSeq(seq, 1, Len(seq) - 1)

\* Vec::truncate
truncate(seq, len) == IF Len(seq) > len THEN SubSeq(seq, 1, len) ELSE seq

\* the loop of run() is about to dispatch the instruction `op`
Dispatching(ops) ==
    /\ result = "Running"
    /\ steps < MaxSteps
    /\ curr_ip < code_size(curr_chunk)
    /\ read_code(curr_chunk, curr_ip) \in ops

\* what every arm leaves: the new frames, stack, globals, outcome and output
Effect(name, arg, frames2, stack2, globals2, result2, out2, calls2) ==
    /\ frames' = frames2
    /\ stack' = stack2
    /\ globals' = globals2
    /\ result' = result2
    /\ out' = out2
    /\ calls' = calls2
    /\ steps' = steps + 1
    /\ last' = [op |-> name, stack |-> stack, frames |-> frames,
                calls |-> calls, arg |-> arg]
    /\ UNCHANGED <<overflow_checks, runs>>

\* an unwrap() on None or an index out of range: the process aborts
Panic(name, arg) ==
    Effect(name, arg, frames, stack, globals, "Panic", out, calls)

\* runtime_error(message); break InterpretResult::RuntimeError
RuntimeError(name, arg, bytes) ==
    Effect(name, arg, frames_after(bytes), <<>>, globals, "RuntimeError", out,
           calls)

\* an arm that only changes the stack and moves the ip over `bytes` bytes
Continue(name, arg, bytes, stack2) ==
    Effect(name, arg, frames_after(bytes), stack2, globals, "Running", out,
           calls)

\* the match of interpret_source on what Compiler::compile returned; a compile
\* that overflowed panics before it returns when overflow checks are on
interpret_compiled(compiled) ==
    IF compiled.overflowed /\ overflow_checks
    THEN result' = "Panic" /\ UNCHANGED <<frames, stack, globals, calls>>
    ELSE IF ~compiled.ok
    THEN result' = "CompileError" /\ UNCHANGED <<frames, stack, globals, calls>>
    ELSE /\ stack' = <<Function(compiled.function)>>
         /\ globals' = [slot \in 1..GlobalsSize |-> None]
         /\ frames' = Append(frames, CallFrame(compiled.function, 0, 1))
         /\ calls' = Append(calls, [script |-> TRUE])
         /\ result' = "Running"

\* interpret_source(Sources[k]) on a VM that is not running
InterpretSource(k, max_runs) ==
    /\ result \notin { "Running", "Panic" }
    /\ runs < max_runs
    /\ runs' = runs + 1
    /\ steps' = 0
    /\ last' = [op |-> "interpret_source", stack |-> stack, frames |-> frames,
                calls |-> calls, arg |-> k]
    /\ UNCHANGED <<out, overflow_checks>>
    /\ interpret_compiled(Compiled[k])

OpReturn ==
    /\ Dispatching({ OpCode.Return })
    /\ IF stack = <<>> THEN Panic("Return", 0)
       ELSE LET value == stack[Len(stack)]
                frame == curr_frame
            IN  IF Len(frames) = 1
                THEN Effect("Return", value, <<>>, Front(stack), globals,
                            "Success", out, Front(calls))
                ELSE Effect("Return", value, Front(frames),
                            Append(truncate(Front(stack), frame.slot - 1), value),
                            globals, "Running", out, Front(calls))

OpLiteral ==
    /\ Dispatching({ OpCode.Nil, OpCode.True, OpCode.False })
    /\ LET op == read_code(curr_chunk, curr_ip)
           value == CASE op = OpCode.Nil -> Nil
                      [] op = OpCode.True -> Bool(TRUE)
                      [] op = OpCode.False -> Bool(FALSE)
       IN  Continue("Literal", op, 1, Append(stack, value))

\* push_constant!
OpConstant ==
    /\ Dispatching({ OpCode.Number, OpCode.String, OpCode.Function })
    /\ LET op == read_code(curr_chunk, curr_ip)
           pool == CASE op = OpCode.Number -> curr_chunk.numbers
                     [] op = OpCode.String -> curr_chunk.strings
                     [] op = OpCode.Function -> curr_chunk.functions
           value == CASE op = OpCode.Number -> Number(pool[operand + 1])
                      [] op = OpCode.String -> String(pool[operand + 1])
                      [] op = OpCode.Function -> Function(pool[operand + 1])
       IN  IF operand < Len(pool)
           THEN Continue("Constant", op, 2, Append(stack, value))
           ELSE Panic("Constant", op)

\* unary_op!
OpUnary ==
    /\ Dispatching({ OpCode.Not, OpCode.Negate })
    /\ LET op == read_code(curr_chunk, curr_ip)
           top == stack[Len(stack)]
           r == IF op = OpCode.Not THEN not(top) ELSE neg(top)
       IN  IF stack = <<>> THEN Panic("Unary", op)
           ELSE IF r.ok
           THEN Continue("Unary", op, 1, Append(Front(stack), r.value))
           ELSE RuntimeError("Unary", op, 1)

\* binary_op!
OpBinary ==
    /\ Dispatching({ OpCode.Equal, OpCode.Greater, OpCode.Less, OpCode.Addition,
                     OpCode.Subtract, OpCode.Multiply, OpCode.Divide })
    /\ LET op == read_code(curr_chunk, curr_ip)
           b == stack[Len(stack)]
           a == stack[Len(stack) - 1]
           r == CASE op = OpCode.Equal -> equal(a, b)
                  [] op = OpCode.Greater -> greater(a, b)
                  [] op = OpCode.Less -> less(a, b)
                  [] op = OpCode.Addition -> add(a, b)
                  [] op = OpCode.Subtract -> sub(a, b)
                  [] op = OpCode.Multiply -> mul(a, b)
                  [] op = OpCode.Divide -> div(a, b)
       IN  IF Len(stack) < 2 THEN Panic("Binary", op)
           ELSE IF r.ok
           THEN Continue("Binary", op, 1, Append(Front(Front(stack)), r.value))
           ELSE RuntimeError("Binary", op, 1)

OpPrint ==
    /\ Dispatching({ OpCode.PrintValue })
    /\ IF stack = <<>> THEN Panic("Print", 0)
       ELSE Effect("Print", 0, frames_after(1), Front(stack), globals,
                   "Running", Append(out, stack[Len(stack)]), calls)

OpPop ==
    /\ Dispatching({ OpCode.Pop })
    /\ IF stack = <<>> THEN Panic("Pop", 0)
       ELSE Continue("Pop", 0, 1, Front(stack))

\* curr_chunk().read_variable(index) for the operand byte; the pool index is
\* in range in every chunk the compiler emits
variable_operand == curr_chunk.variables[operand + 1]

\* DefineGlobal storing into the slot whatever the slot holds
OpDefineGlobal_overwrite ==
    /\ Dispatching({ OpCode.DefineGlobal })
    /\ IF operand >= Len(curr_chunk.variables) \/ stack = <<>>
          \/ variable_operand >= Len(globals)
       THEN Panic("DefineGlobal", operand)
       ELSE Effect("DefineGlobal", variable_operand, frames_after(2),
                   Front(stack),
                   [globals EXCEPT ![variable_operand + 1] = stack[Len(stack)]],
                   "Running", out, calls)

OpDefineGlobal ==
    /\ Dispatching({ OpCode.DefineGlobal })
    /\ LET slot == variable_operand
       IN  IF operand >= Len(curr_chunk.variables) \/ stack = <<>>
           THEN Panic("DefineGlobal", operand)
           ELSE IF slot >= Len(globals)
           THEN RuntimeError("DefineGlobal", slot, 2)
           ELSE IF globals[slot + 1] # None
           THEN RuntimeError("DefineGlobal", slot, 2)
           ELSE Effect("DefineGlobal", slot, frames_after(2), Front(stack),
                       [globals EXCEPT ![slot + 1] = stack[Len(stack)]],
                       "Running", out, calls)

OpGetGlobal ==
    /\ Dispatching({ OpCode.GetGlobal })
    /\ LET global_slot == variable_operand
       IN  IF operand >= Len(curr_chunk.variables)
              \/ global_slot >= Len(globals)
           THEN Panic("GetGlobal", operand)
           ELSE IF globals[global_slot + 1] # None
           THEN Continue("GetGlobal", global_slot, 2,
                         Append(stack, globals[global_slot + 1]))
           ELSE RuntimeError("GetGlobal", global_slot, 2)

\* SetGlobal storing into the slot whether or not the slot is filled
OpSetGlobal_define ==
    /\ Dispatching({ OpCode.SetGlobal })
    /\ IF operand >= Len(curr_chunk.variables) \/ stack = <<>>
          \/ variable_operand >= Len(globals)
       THEN Panic("SetGlobal", operand)
       ELSE Effect("SetGlobal", variable_operand, frames_after(2), stack,
                   [globals EXCEPT ![variable_operand + 1] = stack[Len(stack)]],
                   "Running", out, calls)

OpSetGlobal ==
    /\ Dispatching({ OpCode.SetGlobal })
    /\ LET global_slot == variable_operand
       IN  IF operand >= Len(curr_chunk.variables)
              \/ global_slot >= Len(globals)
           THEN Panic("SetGlobal", operand)
           ELSE IF globals[global_slot + 1] # None
           THEN IF stack = <<>> THEN Panic("SetGlobal", operand)
                ELSE Effect("SetGlobal", global_slot, frames_after(2), stack,
                            [globals EXCEPT
                                ![global_slot + 1] = stack[Len(stack)]],
                            "Running", out, calls)
           ELSE RuntimeError("SetGlobal", global_slot, 2)

OpGetLocal ==
    /\ Dispatching({ OpCode.GetLocal })
    /\ LET stack_slot == variable_operand + curr_frame.slot
       IN  IF operand >= Len(curr_chunk.variables)
           THEN Panic("GetLocal", operand)
           ELSE IF stack_slot < Len(stack)
           THEN Continue("GetLocal", stack_slot, 2,
                         Append(stack, stack[stack_slot + 1]))
           ELSE RuntimeError("GetLocal", stack_slot, 2)

OpSetLocal ==
    /\ Dispatching({ OpCode.SetLocal })
    /\ LET stack_slot == variable_operand + curr_frame.slot
       IN  IF operand >= Len(curr_chunk.variables)
           THEN Panic("SetLocal", operand)
           ELSE IF stack_slot < Len(stack)
           THEN Continue("SetLocal", stack_slot, 2,
                         [stack EXCEPT ![stack_slot + 1] = stack[Len(stack)]])
           ELSE RuntimeError("SetLocal", stack_slot, 2)

OpJumpFalse ==
    /\ Dispatching({ OpCode.JumpFalse })
    /\ IF stack = <<>> THEN Panic("JumpFalse", short_operand)
       ELSE IF ~bool_value(stack[Len(stack)])
       THEN Continue("JumpFalse", short_operand, 3 + short_operand, stack)
       ELSE Continue("JumpFalse", short_operand, 3, stack)

OpJump ==
    /\ Dispatching({ OpCode.Jump })
    /\ Continue("Jump", short_operand, 3 + short_operand, stack)

\* curr_ip_dec below 0 panics or wraps to an ip outside the chunk, whose read
\* panics
OpJumpBack ==
    /\ Dispatching({ OpCode.JumpBack })
    /\ IF curr_ip + 3 < short_operand THEN Panic("JumpBack", short_operand)
       ELSE Continue("JumpBack", short_operand, 3 - short_operand, stack)

\* Call with the base of the new frame on the callee, one below the arguments
OpCall_callee_base ==
    /\ Dispatching({ OpCode.Call })
    /\ LET arg_cout == operand
           index == Len(stack) - 1 - arg_cout
           function_value == stack[index + 1]
       IN  IF index < 0 THEN Panic("Call", arg_cout)
           ELSE IF function_value.tag = "Function"
           THEN /\ Len(frames) < MaxFrames
                /\ Effect("Call", arg_cout,
                          Append(frames_after(2),
                                 CallFrame(function_value.function, 0, index)),
                          stack, globals, "Running", out,
                          Append(calls, [script |-> FALSE, h |-> index,
                                         below |-> SubSeq(stack, 1, index),
                                         frames |-> frames]))
           ELSE Effect("Call", arg_cout, frames_after(2), stack, globals,
                       "RuntimeError", out, calls)

OpCall ==
    /\ Dispatching({ OpCode.Call })
    /\ LET arg_cout == operand
           index == Len(stack) - 1 - arg_cout
           function_value == stack[index + 1]
       IN  IF index < 0 THEN Panic("Call", arg_cout)
           ELSE IF function_value.tag = "Function"
           THEN /\ Len(frames) < MaxFrames
                /\ Effect("Call", arg_cout,
                          Append(frames_after(2),
                                 CallFrame(function_value.function, 0,
                                           Len(stack) - arg_cout)),
                          stack, globals, "Running", out,
                          Append(calls, [script |-> FALSE, h |-> index,
                                         below |-> SubSeq(stack, 1, index),
                                         frames |-> frames]))
           ELSE Effect("Call", arg_cout, frames_after(2), stack, globals,
                       "RuntimeError", out, calls)

\* one turn of the loop of VM::run
Run ==
    \/ OpReturn
    \/ OpLiteral
    \/ OpConstant
    \/ OpUnary
    \/ OpBinary
    \/ OpPrint
    \/ OpPop
    \/ OpDefineGlobal
    \/ OpGetGlobal
    \/ OpSetGlobal
    \/ OpGetLocal
    \/ OpSetLocal
    \/ OpJumpFalse
    \/ OpJump
    \/ OpJumpBack
    \/ OpCall

\* one source interpreted by a new VM
Next == (\E k \in DOMAIN Sources : InterpretSource(k, 1)) \/ Run

Spec == Init /\ [][Next]_vars

\* several sources interpreted one after another by the same VM
NextSeq == (\E k \in SeqSources : InterpretSource(k, MaxRuns)) \/ Run

SpecSeq == Init /\ [][NextSeq]_vars

-----------------------------------------------------------------------------
(* Properties *)

\* the run has just ended with Success: the last frame executed Return
TopLevelReturned == last.op = "Return" /\ result = "Success"

\* C1: stack balance. When the top-level frame has executed its final Return
\* and popped the return value, the operand stack holds exactly one element,
\* the script function (the function of the frame that returned).
C1_StackBalance ==
    TopLevelReturned =>
        stack = <<Function(last.frames[Len(last.frames)].function)>>

\* the offsets of the first bytes of the instructions of a chunk from `offset` on
\* up to n instructions on from s.offset, the first half before the second
RECURSIVE instructions_passed(_, _, _)
instructions_passed(chunk, s, n) ==
    IF n = 0 \/ s.offset >= code_size(chunk) THEN s
    ELSE IF n = 1
    THEN [ offset |-> s.offset
                        + InstructionLength(read_code(chunk, s.offset)),
           starts |-> s.starts \cup {s.offset} ]
    ELSE instructions_passed(chunk,
                             instructions_passed(chunk, s, n \div 2),
                             n - (n \div 2))

instruction_starts(chunk, offset) ==
    instructions_passed(chunk, [offset |-> offset, starts |-> {}],
                        code_size(chunk)).starts

\* the chunk of a function and of every function in its pools
RECURSIVE chunks_of(_)
chunks_of(function) ==
    {function.chunk}
    \cup UNION { chunks_of(function.chunk.functions[j]) :
                     j \in 1..Len(function.chunk.functions) }

JumpCodes == { OpCode.Jump, OpCode.JumpFalse, OpCode.JumpBack }

\* the ip the VM has after the jump at offset i: the offset pair is applied
\* from the byte after it
jump_target(chunk, i) ==
    LET offset == read_code(chunk, i + 1) + 256 * read_code(chunk, i + 2)
    IN  IF read_code(chunk, i) = OpCode.JumpBack
        THEN i + 3 - offset ELSE i + 3 + offset

jumps_land(chunk) ==
    \A i \in instruction_starts(chunk, 0) :
        read_code(chunk, i) \in JumpCodes =>
            /\ i + 2 < code_size(chunk)
            /\ jump_target(chunk, i) \in instruction_starts(chunk, 0)

\* C2: jump correctness. In every chunk of an accepted program every Jump,
\* JumpFalse and JumpBack lands, from the byte after its offset pair, on the
\* first byte of an instruction of the same chunk; and every jump the VM
\* executes leaves the ip on such a byte.
C2_JumpsLand ==
    /\ (last.op = "interpret_source" /\ result = "Running") =>
           \A chunk \in chunks_of(curr_frame.function) : jumps_land(chunk)
    /\ (last.op \in { "Jump", "JumpFalse", "JumpBack" } /\ result = "Running") =>
           curr_ip \in instruction_starts(curr_chunk, 0)

\* a backward jump was executed in a chunk that also holds forward jumps of
\* both kinds
C2_Witness ==
    /\ last.op = "JumpBack"
    /\ result = "Running"
    /\ \E i, j \in instruction_starts(curr_chunk, 0) :
           /\ read_code(curr_chunk, i) = OpCode.Jump
           /\ read_code(curr_chunk, j) = OpCode.JumpFalse

\* the value Call(arg_cout) takes for the callee, arg_cout below the top of
\* the stack the Call found
called_value == last.stack[Len(last.stack) - last.arg]

\* C3: Call(arg_count) on a Function whose params_num differs from arg_count
\* ends the run with RuntimeError and pushes no frame; a frame is pushed only
\* when the callee is a Function and params_num equals arg_count.
C3_ArityChecked ==
    (last.op = "Call" /\ Len(last.stack) > last.arg) =>
        LET arity_matches == /\ called_value.tag = "Function"
                             /\ called_value.function.params_num = last.arg
        IN  /\ Len(frames) = Len(last.frames) + 1 <=> arity_matches
            /\ (called_value.tag = "Function" /\ ~arity_matches) =>
                   result = "RuntimeError"

\* C4: whenever run() ends with RuntimeError, whatever the cause, the operand
\* stack has been reset to empty.
C4_ErrorResetsStack == result = "RuntimeError" => stack = <<>>

\* C5: every interpret_source call whose source compiles enters run() with
\* the stack holding only the script function and with exactly the frame
\* {script function, ip 0, stack base 1}, also after an earlier call ended
\* with RuntimeError; so the Return of the script's frame empties the frame
\* stack and ends the call with Success.
C5_FreshRun ==
    /\ (last.op = "interpret_source" /\ result = "Running") =>
           /\ stack = <<Function(Compiled[last.arg].function)>>
           /\ frames = <<CallFrame(Compiled[last.arg].function, 0, 1)>>
    /\ (/\ last.op = "Return"
        /\ result # "Panic"
        /\ last.calls[Len(last.calls)].script) =>
           (frames = <<>> /\ result = "Success")

\* C6: a completed call leaves one value in place of the callee and its
\* arguments: with h the height of the stack below the callee, after the
\* Return of the call's frame the stack has height h + 1, its top is the
\* returned value, the h values below are as they were, and the frame stack
\* is the one the Call found (the caller's ip past the Call).
C6_CallEffect ==
    (/\ last.op = "Return"
     /\ result = "Running"
     /\ ~last.calls[Len(last.calls)].script) =>
        LET call == last.calls[Len(last.calls)]
        IN  /\ Len(stack) = call.h + 1
            /\ stack[Len(stack)] = last.arg
            /\ SubSeq(stack, 1, call.h) = call.below
            /\ frames = [call.frames EXCEPT ![Len(call.frames)].ip = @ + 2]

\* the falsey values: false and nil
falsey(v) == v = Bool(FALSE) \/ v = Nil

\* C7: only false and nil are falsey, everywhere: Not yields true exactly for
\* false and nil (so false for every Number and every String), and JumpFalse
\* jumps exactly for false and nil.
C7_Truthiness ==
    /\ (last.op = "Unary" /\ last.arg = OpCode.Not /\ last.stack # <<>>) =>
           /\ result = "Running"
           /\ stack[Len(stack)] = Bool(falsey(last.stack[Len(last.stack)]))
    /\ (last.op = "JumpFalse" /\ last.stack # <<>>) =>
           curr_ip = last.frames[Len(last.frames)].ip + 3
                     + (IF falsey(last.stack[Len(last.stack)])
                        THEN last.arg ELSE 0)

\* the operands a binary opcode found: left below right
left_operand == last.stack[Len(last.stack) - 1]

right_operand == last.stack[Len(last.stack)]

\* C8: Less and Greater succeed only on two Numbers or two Strings; every
\* other pair of operands, Bool with Bool and Nil with Nil included, ends the
\* run with a runtime error.
C8_OrderingTyped ==
    (/\ last.op = "Binary"
     /\ last.arg \in { OpCode.Less, OpCode.Greater }
     /\ Len(last.stack) >= 2) =>
        IF /\ left_operand.tag = right_operand.tag
           /\ left_operand.tag \in { "Number", "String" }
        THEN result = "Running"
        ELSE result = "RuntimeError"

\* C9: Equal on two values of different variants pushes Bool(false) and the
\* run goes on; on two values of the same variant it pushes their structural
\* equality.
C9_EqualTotal ==
    (/\ last.op = "Binary"
     /\ last.arg = OpCode.Equal
     /\ Len(last.stack) >= 2) =>
        /\ result = "Running"
        /\ stack[Len(stack)] = Bool(left_operand = right_operand)

\* an identifier that is the right operand of an operator binding tighter
\* than assignment, with '=' after it
misplaced_assignment(source) ==
    \E i \in 1..(Len(source) - 2) :
        /\ source[i] \in { "plus", "minus", "star", "slash", "bang", "bangeq",
                           "eqeq", "lt", "le", "gt", "ge" }
        /\ scan_word(source[i + 1]).type = "Identifier"
        /\ source[i + 2] = "eq"

\* C10: '=' after an identifier is an assignment only at assignment
\* precedence; after the right operand of a tighter operator, as in
\* `a + b = c;`, it is not consumed and the program is rejected with a compile
\* error.
C10_AssignmentTarget ==
    (last.op = "interpret_source" /\ misplaced_assignment(Sources[last.arg])) =>
        result = "CompileError"

\* how many of the words i..j of a source are `word`
count_words(source, word, i, j) ==
    Cardinality({ k \in i..j : source[k] = word })

\* word j of the source lies in the body of the function declared by the
\* `fun` at word i
inside_body(source, i, j) ==
    \E b \in i..j :
        /\ source[b] = "lbrace"
        /\ count_words(source, "lbrace", i, b - 1) = 0
        /\ \A k \in b..j : count_words(source, "lbrace", b, k)
                             > count_words(source, "rbrace", b, k)

\* the parameter names of the function declared by the `fun` at word i
declared_params(source, i) ==
    { source[p] : p \in { q \in (i + 3)..Len(source) :
                            /\ count_words(source, "rparen", i, q) = 0
                            /\ scan_word(source[q]).type = "Identifier" } }

\* the source declares one function, outside every function body, whose body
\* names the function itself, and every identifier of the source is that
\* function's name or one of its parameters
self_reference(source) ==
    \E i \in 1..(Len(source) - 1) :
        /\ source[i] = "fun"
        /\ count_words(source, "fun", 1, Len(source)) = 1
        /\ \E j \in (i + 2)..Len(source) :
               source[j] = source[i + 1] /\ inside_body(source, i, j)
        /\ \A j \in 1..Len(source) :
               scan_word(source[j]).type = "Identifier" =>
                   source[j] \in {source[i + 1]} \cup declared_params(source, i)

\* C11: a function declared at depth 0 of the script or inside a block of the
\* script can name itself in its own body: compiling such a source reports no
\* "Undefined variable Error".
C11_SelfReference ==
    (last.op = "interpret_source" /\ self_reference(Sources[last.arg])) =>
        \A e \in DOMAIN Compiled[last.arg].errors :
            Compiled[last.arg].errors[e] # "Undefined variable Error"

word_type(source, i) ==
    IF i \in 1..Len(source) THEN scan_word(source[i]).type ELSE "Eof"

\* the scope that word d lies in is still open at word j
scope_open(source, d, j) ==
    \A k \in d..j : count_words(source, "rbrace", d, k)
                      <= count_words(source, "lbrace", d, k)

\* the words of a source that start a `var` declaration
declarations(source) == { d \in 1..Len(source) : source[d] = "var" }

\* a source made of blocks, `var NAME = NUMBER;` and `print NAME;` only, with
\* balanced braces, no name declared twice in one scope and no number used by
\* two declarations (so a printed number names the declaration it came from)
block_program(source) ==
    /\ \A i \in 1..Len(source) :
           CASE word_type(source, i) = "Var" ->
                    /\ word_type(source, i + 1) = "Identifier"
                    /\ word_type(source, i + 2) = "Equal"
                    /\ word_type(source, i + 3) = "Number"
                    /\ word_type(source, i + 4) = "Semicolon"
             [] word_type(source, i) = "Print" ->
                    /\ word_type(source, i + 1) = "Identifier"
                    /\ word_type(source, i + 2) = "Semicolon"
             [] word_type(source, i) = "Identifier" ->
                    word_type(source, i - 1) \in {"Var", "Print"}
             [] word_type(source, i) = "Equal" ->
                    word_type(source, i - 2) = "Var"
             [] word_type(source, i) = "Number" ->
                    word_type(source, i - 1) = "Equal"
             [] word_type(source, i) = "Semicolon" ->
                    \/ word_type(source, i - 2) = "Print"
                    \/ word_type(source, i - 4) = "Var"
             [] word_type(source, i) \in {"LeftBrace", "RightBrace"} -> TRUE
             [] OTHER -> FALSE
    /\ scope_open(source, 1, Len(source))
    /\ count_words(source, "lbrace", 1, Len(source))
         = count_words(source, "rbrace", 1, Len(source))
    /\ \A d1, d2 \in declarations(source) :
           d1 < d2 =>
               /\ source[d1 + 3] # source[d2 + 3]
               /\ ~ /\ source[d1 + 1] = source[d2 + 1]
                    /\ scope_open(source, d1, d2)
                    /\ count_words(source, "lbrace", d1, d2)
                         = count_words(source, "rbrace", d1, d2)

\* the declarations of the name printed at word j that are in scope there
visible_declarations(source, j) ==
    { d \in declarations(source) :
        d < j /\ source[d + 1] = source[j + 1] /\ scope_open(source, d, j) }

\* the latest of them is the one of the innermost enclosing scope
innermost_declaration(source, j) ==
    CHOOSE d \in visible_declarations(source, j) :
        \A e \in visible_declarations(source, j) : e <= d

\* what the prints from word i on show when each name denotes its innermost
\* enclosing declaration
RECURSIVE innermost_values(_, _)
innermost_values(source, i) ==
    IF i > Len(source) THEN <<>>
    ELSE IF source[i] = "print"
    THEN <<Number(parse_f64(scan_word(
               source[innermost_declaration(source, i) + 3]).lexeme))>>
         \o innermost_values(source, i + 1)
    ELSE innermost_values(source, i + 1)

unresolved_print(source) ==
    \E j \in 1..Len(source) :
        source[j] = "print" /\ visible_declarations(source, j) = {}

BlockPrograms == { k \in DOMAIN Sources : block_program(Sources[k]) }

\* C12: an identifier denotes the declaration of the innermost enclosing scope
\* that declares it, a global when no block does, and is a compile error when
\* nothing in scope declares it: a block program whose every printed name is
\* in scope compiles and prints, in order, the values of the innermost
\* declarations (a block-local x shadows the global x, which is seen again
\* after the block); one with a name out of scope is a CompileError.
C12_InnermostScope ==
    /\ (last.op = "interpret_source" /\ last.arg \in BlockPrograms) =>
           (result = "CompileError" <=> unresolved_print(Sources[last.arg]))
    /\ \A k \in BlockPrograms :
           (/\ TopLevelReturned
            /\ Compiled[k].ok
            /\ last.frames[1].function = Compiled[k].function) =>
               out = innermost_values(Sources[k], 1)

\* a run of a block program in which a block-local declaration shadowed an
\* outer one has returned after printing
C12_Witness ==
    \E k \in BlockPrograms :
        /\ TopLevelReturned
        /\ last.frames[1].function = Compiled[k].function
        /\ Len(out) >= 2
        /\ \E j \in 1..Len(Sources[k]) :
               /\ Sources[k][j] = "print"
               /\ Cardinality(visible_declarations(Sources[k], j)) >= 2

\* the compiler before and after each declaration() the compile loop, the
\* loop of a block or the loop of a function body runs from state c on
RECURSIVE declaration_trace(_), step_turns(_, _), step_runs(_, _)
\* the `fun` at the current token gets as far as its body
body_compiled(c) ==
    /\ c.current.type = "Fun"
    /\ advance(c).current.type = "Identifier"
    /\ advance(c).current.lexeme
         \notin DOMAIN curr_context(c).variables[curr_context(c).depth]

step_taken(s, d) ==
    [ c |-> d,
      steps |-> Append(s.steps, <<s.c, d>>)
                \o (IF s.c.current.type = "LeftBrace"
                    THEN declaration_trace(scoop_begin(advance(s.c)))
                    ELSE <<>>)
                \o (IF body_compiled(s.c)
                    THEN declaration_trace(
                             scoop_begin(function_head(advance(s.c))))
                    ELSE <<>>) ]

step_turns(s, n) ==
    IF n = 0 \/ s.c.current.type \in {"Eof", "RightBrace"} THEN s
    ELSE IF n = 1 THEN step_taken(s, declaration(s.c))
    ELSE step_turns(step_turns(s, n \div 2), n - (n \div 2))

step_runs(s, n) ==
    IF s.c.current.type \in {"Eof", "RightBrace"} THEN s
    ELSE IF n < 8 THEN step_runs(step_taken(s, declaration(s.c)), n + 1)
    ELSE step_runs(step_turns(s, n), 2 * n)

declaration_trace(c) == step_runs([c |-> c, steps |-> <<>>], 1).steps

steps_listed(trace) == { trace[i] : i \in DOMAIN trace }

declaration_steps(c) == steps_listed(declaration_trace(c))

\* the step declares, with `var` or `fun`, the name that follows the keyword
declares(step) ==
    /\ step[1].current.type \in {"Var", "Fun"}
    /\ advance(step[1]).current.type = "Identifier"

declared_name(step) == advance(step[1]).current.lexeme

scope_map(c) == curr_context(c).variables[curr_context(c).depth]

\* the messages the step reported
reported(step) ==
    { step[2].errors[e] : e \in (Len(step[1].errors) + 1)..Len(step[2].errors) }

\* the name is declared in a scope of the context, the current one left out
declared_outside(step) ==
    \E depth \in DOMAIN curr_context(step[1]).variables :
        /\ depth < curr_context(step[1]).depth
        /\ declared_name(step) \in DOMAIN curr_context(step[1]).variables[depth]

\* C13: declaring with `var` or `fun` a name the current scope already
\* declares reports "Redefined identifier in curr space" and leaves the map of
\* that scope and local_count as they were; a name that only an enclosing
\* scope declares is accepted and bound in the current scope.
C13_Redeclaration ==
    last.op = "interpret_source" =>
        \A step \in declaration_steps(compile_begin(scan(Sources[last.arg]))) :
            declares(step) =>
                IF declared_name(step) \in DOMAIN scope_map(step[1])
                THEN /\ "Redefined identifier in curr space" \in reported(step)
                     /\ result \in {"CompileError", "Panic"}
                     /\ scope_map(step[2]) = scope_map(step[1])
                     /\ curr_context(step[2]).local_count
                          = curr_context(step[1]).local_count
                ELSE declared_outside(step) =>
                         /\ "Redefined identifier in curr space"
                                \notin reported(step)
                         /\ declared_name(step) \in DOMAIN scope_map(step[2])

\* a source that redeclares a local of a block has been compiled
C13_Witness ==
    /\ last.op = "interpret_source"
    /\ result = "CompileError"
    /\ \E step \in declaration_steps(compile_begin(scan(Sources[last.arg]))) :
           /\ declares(step)
           /\ curr_context(step[1]).depth >= 1
           /\ curr_context(step[1]).local_count >= 1
           /\ declared_name(step) \in DOMAIN scope_map(step[1])

\* C14: DefineGlobal on a filled slot ends the run with RuntimeError and
\* leaves every global slot as it was; on an empty slot it pops the top of
\* the stack into the slot and goes on. So a top-level `var` that is executed
\* a second time (the unbraced body of a while) is a runtime error.
C14_DefineGlobal ==
    [][ (last'.op = "DefineGlobal" /\ result' # "Panic"
         /\ last'.arg < Len(globals)) =>
            IF globals[last'.arg + 1] # None
            THEN result' = "RuntimeError" /\ globals' = globals
            ELSE /\ result' = "Running"
                 /\ stack' = Front(stack)
                 /\ globals' = [globals EXCEPT
                                   ![last'.arg + 1] = stack[Len(stack)]] ]_vars

\* the second execution of a top-level `var` has met its slot filled, after
\* the first had filled it
C14_Witness ==
    /\ last.op = "DefineGlobal"
    /\ result = "RuntimeError"
    /\ globals[last.arg + 1] # None
    /\ steps >= 4

\* a step of a run leaves filled slots filled, and fills a slot only by
\* DefineGlobal
slots_only_defined ==
    last'.op # "interpret_source" =>
        \A slot \in 1..Len(globals) :
            /\ globals[slot] # None => globals'[slot] # None
            /\ (globals[slot] = None /\ globals'[slot] # None) =>
                   last'.op = "DefineGlobal"

\* C15, as stated: SetGlobal never changes the operand stack; it overwrites a
\* filled slot with the top of the stack and ends the run with RuntimeError,
\* filling nothing, on an empty slot; a slot is filled only by DefineGlobal
\* and never emptied.
C15_SetGlobalKeepsStack ==
    [][ /\ (last'.op = "SetGlobal" /\ result' # "Panic") =>
               /\ stack' = stack
               /\ IF globals[last'.arg + 1] # None
                  THEN /\ result' = "Running"
                       /\ globals' = [globals EXCEPT
                                         ![last'.arg + 1] = stack[Len(stack)]]
                  ELSE result' = "RuntimeError" /\ globals' = globals
        /\ slots_only_defined ]_vars

\* C15, amended: SetGlobal on a filled slot leaves the operand stack as it
\* was and overwrites the slot with the top of the stack; on an empty slot it
\* ends the run with RuntimeError, fills nothing, and the stack is reset as by
\* every runtime_error. During a run a slot is filled only by DefineGlobal and
\* never emptied.
C15_SetGlobal ==
    [][ /\ (last'.op = "SetGlobal" /\ result' # "Panic") =>
               IF globals[last'.arg + 1] # None
               THEN /\ result' = "Running"
                    /\ stack' = stack
                    /\ globals' = [globals EXCEPT
                                      ![last'.arg + 1] = stack[Len(stack)]]
               ELSE /\ result' = "RuntimeError"
                    /\ globals' = globals
                    /\ stack' = <<>>
        /\ slots_only_defined ]_vars

\* SetGlobal has overwritten a filled slot with the top of the stack
C15_Witness ==
    /\ last.op = "SetGlobal"
    /\ result = "Running"
    /\ stack = last.stack
    /\ globals[last.arg + 1] = stack[Len(stack)]

\* the words that are the parameters of the function declared by the `fun`
\* at word i
param_positions(source, i) ==
    { q \in (i + 3)..Len(source) :
        /\ count_words(source, "rparen", i, q) = 0
        /\ scan_word(source[q]).type = "Identifier" }

\* the source declares a function with more than MaxParams parameters or
\* with one name for two of them
bad_parameter_list(source) ==
    \E i \in 1..Len(source) :
        /\ source[i] = "fun"
        /\ \/ Cardinality(param_positions(source, i)) > MaxParams
           \/ Cardinality(param_positions(source, i))
                > Cardinality(declared_params(source, i))

\* C16: a function declaration with more than 255 parameters, or with two
\* parameters of one name, is rejected with a compile error.
C16_ParametersChecked ==
    (last.op = "interpret_source" /\ bad_parameter_list(Sources[last.arg])) =>
        result = "CompileError"

\* C17: when compile returns, it returns Err if a diagnostic was reported,
\* also one that a later synchronization and cleanly compiled statements
\* followed, and Ok only if none was. After an Err interpret_source returns
\* CompileError with the stack, the globals and the frames of the VM as they
\* were, and no instruction is executed.
C17_CompileError ==
    [][ /\ (last'.op = "interpret_source" /\ result' # "Panic") =>
               /\ Compiled[last'.arg].ok <=> Compiled[last'.arg].errors = <<>>
               /\ IF Compiled[last'.arg].errors # <<>>
                  THEN /\ result' = "CompileError"
                       /\ stack' = stack
                       /\ globals' = globals
                       /\ frames' = frames
                       /\ out' = out
                  ELSE result' = "Running"
        /\ result = "CompileError" => last'.op = "interpret_source" ]_vars

\* interpret_source has returned CompileError, on a VM that had run a script
\* before, for a source whose diagnostic was followed by statements that
\* compiled without one
C17_Witness ==
    /\ last.op = "interpret_source"
    /\ result = "CompileError"
    /\ Len(Compiled[last.arg].errors) = 1
    /\ code_size(Compiled[last.arg].function.chunk) > 4
    /\ Len(globals) = GlobalsSize
    /\ runs = 2

\* the value a literal word denotes
literal_value(word) ==
    LET token == scan_word(word)
    IN  CASE token.type = "True" -> Bool(TRUE)
          [] token.type = "False" -> Bool(FALSE)
          [] token.type = "Nil" -> Nil
          [] token.type = "Number" -> Number(parse_f64(token.lexeme))
          [] token.type = "String" ->
                String(SubSeq(token.lexeme, 2, Len(token.lexeme) - 1))

\* var x = 1; print A or (x = 2); print x;   or the same with `and`
short_circuit_program(source) ==
    /\ Len(source) = 17
    /\ SubSeq(source, 1, 6) = <<"var", "x", "eq", "n1", "semi", "print">>
    /\ scan_word(source[7]).type \in {"True", "False", "Nil", "Number", "String"}
    /\ source[8] \in {"or", "and"}
    /\ SubSeq(source, 9, 17) = <<"lparen", "x", "eq", "n2", "rparen", "semi",
                                 "print", "x", "semi">>

\* the left operand decides: truthy for `or`, falsey for `and`
short_circuits(source) ==
    (source[8] = "or") <=> ~falsey(literal_value(source[7]))

ShortCircuitPrograms ==
    { k \in DOMAIN Sources : short_circuit_program(Sources[k]) }

\* C18: `a or b` and `a and b` leave exactly one value on the stack: a, with
\* the code of b not executed, when a is truthy for `or` and falsey for `and`;
\* b otherwise. With b the assignment x = 2 to a global that holds 1, the
\* program prints a and then 1 when b is skipped, 2 and then 2 when it is not.
C18_ShortCircuit ==
    \A k \in ShortCircuitPrograms :
        /\ (/\ TopLevelReturned
            /\ last.frames[1].function = Compiled[k].function) =>
               out = IF short_circuits(Sources[k])
                     THEN <<literal_value(Sources[k][7]), Number(1)>>
                     ELSE <<Number(2), Number(2)>>
        /\ (/\ last.op = "Print"
            /\ last.frames[1].function = Compiled[k].function) =>
               Len(last.stack) = 2

\* a run has skipped the right operand of an `or` or an `and` and returned
C18_Witness ==
    \E k \in ShortCircuitPrograms :
        /\ TopLevelReturned
        /\ last.frames[1].function = Compiled[k].function
        /\ short_circuits(Sources[k])
        /\ out = <<literal_value(Sources[k][7]), Number(1)>>

\* C19: Addition on two Strings s and t pushes s followed by t in their
\* place; Addition on a String and a Number, Bool or Nil, in either order,
\* ends the run with RuntimeError.
C19_StringAddition ==
    (last.op = "Binary" /\ last.arg = OpCode.Addition /\ Len(last.stack) >= 2) =>
        /\ (left_operand.tag = "String" /\ right_operand.tag = "String") =>
               /\ result = "Running"
               /\ stack = Append(Front(Front(last.stack)),
                                 String(left_operand.s \o right_operand.s))
        /\ (/\ (left_operand.tag = "String") # (right_operand.tag = "String")
            /\ {left_operand.tag, right_operand.tag}
                   \cap {"Number", "Bool", "Nil"} # {}) =>
               result = "RuntimeError"

\* two different non-empty strings have been added
C19_Witness ==
    /\ last.op = "Binary"
    /\ last.arg = OpCode.Addition
    /\ Len(last.stack) >= 2
    /\ left_operand.tag = "String"
    /\ right_operand.tag = "String"
    /\ left_operand.s # <<>>
    /\ right_operand.s # <<>>
    /\ left_operand # right_operand
    /\ result = "Running"

\* print A OP1 B OP2 C; with number literals A, B, C
binary_program(source) ==
    /\ Len(source) = 7
    /\ source[1] = "print" /\ source[7] = "semi"
    /\ \A k \in {2, 4, 6} : scan_word(source[k]).type = "Number"
    /\ \A k \in {3, 5} : source[k] \in { "plus", "minus", "star", "slash", "lt",
                                         "gt", "le", "ge", "eqeq", "bangeq" }

\* how tightly an operator binds: equality, comparison, term, factor
binding(word) ==
    CASE word \in {"eqeq", "bangeq"} -> 1
      [] word \in {"lt", "gt", "le", "ge"} -> 2
      [] word \in {"plus", "minus"} -> 3
      [] word \in {"star", "slash"} -> 4

\* the opcodes of an operator
operator_code(word) ==
    CASE word = "plus" -> <<OpCode.Addition>>
      [] word = "minus" -> <<OpCode.Subtract>>
      [] word = "star" -> <<OpCode.Multiply>>
      [] word = "slash" -> <<OpCode.Divide>>
      [] word = "lt" -> <<OpCode.Less>>
      [] word = "gt" -> <<OpCode.Greater>>
      [] word = "le" -> <<OpCode.Greater, OpCode.Not>>
      [] word = "ge" -> <<OpCode.Less, OpCode.Not>>
      [] word = "eqeq" -> <<OpCode.Equal>>
      [] word = "bangeq" -> <<OpCode.Equal, OpCode.Not>>

\* the code of the n-th number literal of a chunk
operand_code(n) == <<OpCode.Number, n - 1>>

\* a b op1 c op2 when op2 binds no tighter than op1, a b c op2 op1 when it does
postfix_code(source) ==
    IF binding(source[5]) <= binding(source[3])
    THEN operand_code(1) \o operand_code(2) \o operator_code(source[3])
         \o operand_code(3) \o operator_code(source[5])
    ELSE operand_code(1) \o operand_code(2) \o operand_code(3)
         \o operator_code(source[5]) \o operator_code(source[3])

\* the value of an arithmetic operator on two numbers
arithmetic(word, x, y) ==
    CASE word = "plus" -> x + y
      [] word = "minus" -> x - y
      [] word = "star" -> x * y
      [] word = "slash" -> x \div y

number_of(word) == parse_f64(scan_word(word).lexeme)

\* the value of A OP1 B OP2 C, OP2 first when it binds tighter
grouped_value(source) ==
    IF binding(source[5]) <= binding(source[3])
    THEN arithmetic(source[5],
                    arithmetic(source[3], number_of(source[2]),
                               number_of(source[4])),
                    number_of(source[6]))
    ELSE arithmetic(source[3], number_of(source[2]),
                    arithmetic(source[5], number_of(source[4]),
                               number_of(source[6])))

BinaryPrograms == { k \in DOMAIN Sources : binary_program(Sources[k]) }

\* C20: binary operators are compiled to postfix order by precedence, left
\* associative: `a op1 b op2 c` emits a, b, op1, c, op2 when op2 binds no
\* tighter than op1 and a, b, c, op2, op1 when it binds tighter; and
\* arithmetic prints the value of that grouping (1 - 2 - 3 is -4).
C20_PostfixOrder ==
    /\ (last.op = "interpret_source" /\ last.arg \in BinaryPrograms) =>
           /\ Compiled[last.arg].ok
           /\ Compiled[last.arg].function.chunk.code
                = postfix_code(Sources[last.arg])
                  \o <<OpCode.PrintValue, OpCode.Nil, OpCode.Return>>
           /\ Compiled[last.arg].function.chunk.numbers
                = << number_of(Sources[last.arg][2]),
                     number_of(Sources[last.arg][4]),
                     number_of(Sources[last.arg][6]) >>
    /\ \A k \in BinaryPrograms :
           (/\ TopLevelReturned
            /\ last.frames[1].function = Compiled[k].function
            /\ {Sources[k][3], Sources[k][5]}
                   \subseteq {"plus", "minus", "star", "slash"}) =>
               out = <<Number(grouped_value(Sources[k]))>>

\* 1 - 2 - 3 has printed -4: two operators of one level, grouped to the left
C20_Witness ==
    \E k \in BinaryPrograms :
        /\ TopLevelReturned
        /\ last.frames[1].function = Compiled[k].function
        /\ Sources[k] = <<"print", "n1", "minus", "n2", "minus", "n3", "semi">>
        /\ out = <<Number(-4)>>

\* the pool an opcode's operand byte indexes
operand_pool(chunk, op) ==
    CASE op = OpCode.Number -> chunk.numbers
      [] op = OpCode.String -> chunk.strings
      [] op = OpCode.Function -> chunk.functions
      [] OTHER -> chunk.variables

PoolCodes ==
    { OpCode.Number, OpCode.String, OpCode.Function, OpCode.DefineGlobal,
      OpCode.GetGlobal, OpCode.SetGlobal, OpCode.GetLocal, OpCode.SetLocal }

operands_indexed(chunk) ==
    \A i \in instruction_starts(chunk, 0) :
        read_code(chunk, i) \in PoolCodes =>
            /\ i + 1 < code_size(chunk)
            /\ read_code(chunk, i + 1)
                 < Len(operand_pool(chunk, read_code(chunk, i)))

\* C21: in every chunk of an accepted program, each Number, String, Function,
\* DefineGlobal, GetGlobal, SetGlobal, GetLocal and SetLocal is followed by
\* its operand byte, and the byte is an index into the numbers, strings,
\* functions or variables pool of that chunk.
C21_OperandsIndexed ==
    (last.op = "interpret_source" /\ result = "Running") =>
        \A chunk \in chunks_of(curr_frame.function) : operands_indexed(chunk)

\* an accepted program whose chunks hold every instruction with a pool operand
C21_Witness ==
    /\ last.op = "interpret_source"
    /\ result = "Running"
    /\ \A op \in PoolCodes :
           \E chunk \in chunks_of(curr_frame.function) :
               \E i \in instruction_starts(chunk, 0) : read_code(chunk, i) = op

\* the frame a GetLocal or SetLocal ran in, and the Call that made it
local_frame == last.frames[Len(last.frames)]

local_call == last.calls[Len(last.calls)]

\* the local slot the instruction named: the stack slot less the frame's base
local_slot == last.arg - local_frame.slot

\* the operand of the Call that made the frame, read at the caller's ip
call_arg_count ==
    LET caller == local_call.frames[Len(local_call.frames)]
    IN  read_code(caller.function.chunk, caller.ip + 1)

\* C22: in a frame made by Call(arg_count) local slot 0 is the callee and the
\* parameters are local slots 1..arg_count: GetLocal of slot 0 pushes the
\* function of the frame, GetLocal of slot k pushes the k-th argument, the
\* value k places above the callee.
C22_FrameLayout ==
    (/\ last.op = "GetLocal"
     /\ result = "Running"
     /\ ~local_call.script) =>
        /\ local_slot = 0 =>
               stack[Len(stack)] = Function(local_frame.function)
        /\ local_slot \in 1..call_arg_count =>
               stack[Len(stack)] = last.stack[local_call.h + 1 + local_slot]

\* the token types a statement starts with
StatementKeywords == { "Var", "Print", "If", "While", "For", "Fun", "Return" }

\* the index in toks of the current token, one past the end at Eof
current_index(c) ==
    IF c.current.type = "Eof" THEN Len(c.toks) + 1 ELSE c.pos - 1

\* the types of the tokens the compiler consumed between state c and state e
skipped_types(c, e) ==
    [ i \in 1..(current_index(e) - current_index(c)) |->
        c.toks[current_index(c) + i - 1].type ]

\* the step's statement ended in panic mode
synchronized(step) == statement(step[1]).is_panic

\* the synchronization stopped at the first statement boundary: no keyword a
\* statement starts with was consumed, no token was consumed after a `;`, and
\* it stands behind a `;`, in front of such a keyword or at Eof
stops_at_boundary(step) ==
    LET skipped == skipped_types(statement(step[1]), step[2])
    IN  /\ \A i \in 1..Len(skipped) :
               /\ skipped[i] \notin StatementKeywords
               /\ skipped[i] = "Semicolon" => i = Len(skipped)
        /\ \/ step[2].current.type \in StatementKeywords \cup {"Eof"}
           \/ /\ skipped # <<>>
              /\ skipped[Len(skipped)] = "Semicolon"

\* C23: error synchronization skips tokens only until a statement boundary: it
\* stops after consuming the first `;`, or in front of the first keyword a
\* statement starts with (var, print, if, while, for, fun, return) without
\* consuming it, and clears the panic flag, so that a statement that starts
\* with such a keyword right after the erroneous tokens is compiled.
C23_Synchronize ==
    last.op = "interpret_source" =>
        \A step \in declaration_steps(compile_begin(scan(Sources[last.arg]))) :
            synchronized(step) =>
                /\ ~step[2].is_panic
                /\ stops_at_boundary(step)

\* what add_* did to a pool: below the cap the value is the new last entry and
\* the index returned, the new length less one, is the old length and a byte;
\* at the cap the pool is as it was
pool_added(pool, after, value) ==
    IF Len(pool) < PoolCap
    THEN /\ after = Append(pool, value)
         /\ Len(after) - 1 = Len(pool)
         /\ Len(after) - 1 \in 0..255
    ELSE after = pool

\* the message add_* returns for each pool that is at the cap
pool_errors(chunk) ==
    (IF Len(chunk.numbers) = PoolCap
     THEN {"Too many numbers in one chunk"} ELSE {})
    \cup (IF Len(chunk.strings) = PoolCap
          THEN {"Too many strings in one chunk"} ELSE {})
    \cup (IF Len(chunk.variables) = PoolCap
          THEN {"Too many variable slots in one chunk"} ELSE {})
    \cup (IF Len(chunk.functions) = PoolCap
          THEN {"Too many function in one chunk"} ELSE {})

PoolMessages ==
    { "Too many numbers in one chunk", "Too many strings in one chunk",
      "Too many variable slots in one chunk",
      "Too many function in one chunk" }

reported_messages(k) == { Compiled[k].errors[e] : e \in DOMAIN Compiled[k].errors }

\* a function of no parameters and no code
empty_function == [ name |-> <<>>, params_num |-> 0, chunk |-> NewChunk ]

\* C24: for each of the four pools, add_* on a pool of fewer than 256 entries
\* appends the value and returns the previous size; on a pool of 256 entries
\* it returns an error and leaves the pool as it was. No pool of a compiled
\* chunk exceeds 256 entries, every index written to the code fits a byte, and
\* a pool error is reported only for a pool that stands at 256 entries.
C24_PoolsCapped ==
    last.op = "interpret_source" =>
        /\ \A chunk \in chunks_of(Compiled[last.arg].function) :
               /\ pool_added(chunk.numbers, add_number(chunk, 7).numbers, 7)
               /\ pool_added(chunk.strings,
                             add_string(chunk, <<97>>).strings, <<97>>)
               /\ pool_added(chunk.variables,
                             add_variable(chunk, 3).variables, 3)
               /\ pool_added(chunk.functions,
                             add_function(chunk, empty_function).functions,
                             empty_function)
               /\ Len(chunk.numbers) <= PoolCap
               /\ Len(chunk.strings) <= PoolCap
               /\ Len(chunk.variables) <= PoolCap
               /\ Len(chunk.functions) <= PoolCap
               /\ \A i \in DOMAIN chunk.code : chunk.code[i] \in 0..255
        /\ reported_messages(last.arg) \cap PoolMessages
             \subseteq UNION { pool_errors(chunk) :
                                 chunk \in chunks_of(Compiled[last.arg].function) }

\* a source that asks each of the four pools of the script's chunk for a
\* 257th entry has been compiled: each pool stands at 256 entries
C24_Witness ==
    /\ last.op = "interpret_source"
    /\ result = "CompileError"
    /\ PoolMessages \subseteq reported_messages(last.arg)
    /\ pool_errors(Compiled[last.arg].function.chunk) = PoolMessages

\* the step compiles a `while` or a `for` statement and reports nothing
loop_step(step) ==
    /\ step[1].current.type \in {"While", "For"}
    /\ ~step[1].overflowed
    /\ reported(step) = {}

\* the JumpBack instructions the step wrote
back_jumps(step) ==
    LET chunk == curr_context(step[2]).chunk
    IN  { i \in instruction_starts(chunk, 0) :
            /\ i >= code_size(curr_context(step[1]).chunk)
            /\ read_code(chunk, i) = OpCode.JumpBack }

\* C25: the loop-start label of a `while` and of a `for` statement is computed
\* without arithmetic underflow wherever the loop stands, also first in a
\* chunk whose code size is 0, and the JumpBack then lands inside the loop on
\* the first byte of an instruction: for `while`, whose JumpBack is followed
\* by the last Pop only, on the first byte of the condition.
C25_LoopStart ==
    last.op = "interpret_source" =>
        \A step \in declaration_steps(compile_begin(scan(Sources[last.arg]))) :
            loop_step(step) =>
                LET chunk == curr_context(step[2]).chunk
                    start == code_size(curr_context(step[1]).chunk)
                IN  /\ ~step[2].overflowed
                    /\ result # "Panic"
                    /\ \A i \in back_jumps(step) :
                           /\ jump_target(chunk, i) >= start
                           /\ jump_target(chunk, i)
                                \in instruction_starts(chunk, 0)
                    /\ step[1].current.type = "While" =>
                           jump_target(chunk, code_size(chunk) - 4) = start

\* the source is fun f(a, b, c) { return PARAM; } print PREFIX f(1, 2, 3);
param_read_program(source) ==
    /\ Len(source) >= 24
    /\ SubSeq(source, 1, 11)
         = <<"fun", "f", "lparen", "a", "comma", "b", "comma", "c", "rparen",
             "lbrace", "return">>
    /\ source[12] \in {"a", "b", "c"}
    /\ SubSeq(source, Len(source) - 8, Len(source))
         = <<"f", "lparen", "n1", "comma", "n2", "comma", "n3", "rparen",
             "semi">>

ParamReadPrograms == { k \in DOMAIN Sources : param_read_program(Sources[k]) }

\* the argument the call passes for the parameter the body reads
argument_read(source) ==
    CASE source[12] = "a" -> number_of("n1")
      [] source[12] = "b" -> number_of("n2")
      [] source[12] = "c" -> number_of("n3")

\* C26: the slots the compiler gives the parameters and the frame the VM lays
\* out for a call agree: in a frame made by Call the argument k stands at
\* local slot k - 1 of the frame, and a read of the parameter pk at the start
\* of the body yields the argument ak, for every k, also when the call is
\* nested in an expression that has temporaries on the stack below the callee.
C26_ParametersAgree ==
    /\ (/\ last.op = "GetLocal"
        /\ result = "Running"
        /\ ~local_call.script
        /\ local_slot \in 0..(call_arg_count - 1)) =>
           stack[Len(stack)] = last.stack[local_call.h + 2 + local_slot]
    /\ \A k \in ParamReadPrograms :
           (/\ last.op = "GetLocal"
            /\ last.frames[1].function = Compiled[k].function) =>
               /\ result = "Running"
               /\ stack[Len(stack)] = Number(argument_read(Sources[k]))

\* the body of f has read its last parameter in a call that has two
\* temporaries below the callee
C26_Witness ==
    /\ last.op = "GetLocal"
    /\ result = "Running"
    /\ local_slot = 2
    /\ local_call.h = 3
    /\ \E k \in ParamReadPrograms :
           last.frames[1].function = Compiled[k].function

\* the scopes of a context that hold locals
local_scopes(context) == { depth \in DOMAIN context.variables : depth >= 1 }

\* the number of names in the scopes of the set
RECURSIVE names_total(_, _)
names_total(context, depths) ==
    IF depths = {} THEN 0
    ELSE LET depth == CHOOSE d \in depths : TRUE
         IN  Cardinality(DOMAIN context.variables[depth])
             + names_total(context, depths \ {depth})

\* the slots of the names in scope as locals
local_slots(context) ==
    UNION { { context.variables[depth][name] :
                name \in DOMAIN context.variables[depth] } :
              depth \in local_scopes(context) }

\* local_count is the number of names in the scopes at depth 1 and above,
\* their slots are 0 .. local_count - 1 (so no slot twice), and the current
\* depth has a scope map
context_counted(context) ==
    /\ context.local_count = names_total(context, local_scopes(context))
    /\ local_slots(context) = 0..(context.local_count - 1)
    /\ context.depth \in DOMAIN context.variables

contexts_counted(c) ==
    \A j \in DOMAIN c.ctx : context_counted(c.ctx[j])

\* C27: at every point of compilation and for every context, local_count
\* equals the number of names in the scope maps at depth 1 and above, the
\* slots of those names are pairwise distinct and exactly 0..local_count-1,
\* and the context has a scope map for its current depth; `var`, parameter
\* and block-level `fun` declarations and scope begin and end keep this.
C27_LocalsCounted ==
    last.op = "interpret_source" =>
        \A step \in declaration_steps(compile_begin(scan(Sources[last.arg]))) :
            /\ contexts_counted(step[1])
            /\ contexts_counted(step[2])

\* a source has been compiled in which the body of a function with two
\* parameters declares a local and opens a scope with one more, and a block of
\* the script declares a local and a function and opens a scope that ends
C27_Witness ==
    /\ last.op = "interpret_source"
    /\ result = "Running"
    /\ \E step \in declaration_steps(compile_begin(scan(Sources[last.arg]))) :
           /\ Len(step[1].ctx) = 2
           /\ step[1].current.type = "LeftBrace"
           /\ curr_context(step[1]).local_count = 3
           /\ curr_context(step[2]).local_count = 3
    /\ \E step \in declaration_steps(compile_begin(scan(Sources[last.arg]))) :
           /\ Len(step[1].ctx) = 1
           /\ step[1].current.type = "Fun"
           /\ curr_context(step[1]).local_count = 1
           /\ curr_context(step[2]).local_count = 2
    /\ \E step \in declaration_steps(compile_begin(scan(Sources[last.arg]))) :
           /\ Len(step[1].ctx) = 1
           /\ step[1].current.type = "Var"
           /\ curr_context(step[1]).depth = 2
           /\ curr_context(step[2]).local_count = 3

\* the map of the top-level names when compile has run the source
global_map(source) ==
    root_context(compile_loop(loop_begin(compile_begin(scan(source))), 1))
        .variables[0]

GlobalCodes == { OpCode.DefineGlobal, OpCode.GetGlobal, OpCode.SetGlobal }

\* the slots the global instructions of a chunk name
global_operands(chunk) ==
    { chunk.variables[read_code(chunk, i + 1) + 1] :
        i \in { j \in instruction_starts(chunk, 0) :
                  read_code(chunk, j) \in GlobalCodes } }

\* no two names of the map have one slot, and every slot is below 256
globals_placed(map) ==
    /\ \A x, y \in DOMAIN map : x # y => map[x] # map[y]
    /\ \A x \in DOMAIN map : map[x] \in 0..(GlobalsSize - 1)

\* C28: in every accepted program distinct top-level names have distinct
\* global slots, and every global slot in the variables pool of any chunk is
\* below 256; so GetGlobal and SetGlobal never index outside globals and the
\* slot-range error of DefineGlobal is not reached.
C28_GlobalSlots ==
    /\ (last.op = "interpret_source" /\ result = "Running") =>
           /\ globals_placed(global_map(Sources[last.arg]))
           /\ \A chunk \in chunks_of(curr_frame.function) :
                  global_operands(chunk) \subseteq 0..(GlobalsSize - 1)
    /\ last.op \in {"DefineGlobal", "GetGlobal", "SetGlobal"} =>
           /\ result # "Panic"
           /\ last.arg \in 0..(Len(globals) - 1)

\* a program that declares 256 top-level names has been accepted
C28_Witness ==
    /\ last.op = "interpret_source"
    /\ result = "Running"
    /\ Cardinality(DOMAIN global_map(Sources[last.arg])) = GlobalsSize
    /\ globals_placed(global_map(Sources[last.arg]))

-----------------------------------------------------------------------------
(* C29: the argument counter of parse_call *)

\* fun f() {} f(nil, ..., nil);
argument_call_program(source) ==
    /\ Len(source) >= 10
    /\ SubSeq(source, 1, 8)
         = <<"fun", "f", "lparen", "rparen", "lbrace", "rbrace", "f", "lparen">>
    /\ SubSeq(source, Len(source) - 1, Len(source)) = <<"rparen", "semi">>
    /\ \A i \in 9..(Len(source) - 2) :
           source[i] = (IF (i - 9) % 2 = 0 THEN "nil" ELSE "comma")

ArgumentCallPrograms ==
    { k \in DOMAIN Sources : argument_call_program(Sources[k]) }

\* the number of arguments the call of the program is written with
arguments_written(source) ==
    Cardinality({ i \in 9..(Len(source) - 2) : source[i] = "nil" })

\* the operands of the Call instructions of a chunk
call_operands(chunk) ==
    { read_code(chunk, offset + 1) :
        offset \in { o \in instruction_starts(chunk, 0) :
                        read_code(chunk, o) = OpCode.Call } }

\* C29: while a call is compiled the u8 argument counter never overflows: a
\* call of 256 or more arguments reports 'Can't have more than 255 params'
\* and the counter is not incremented past 255, and when no error is reported
\* the operand byte written after Call is the number of arguments parsed.
C29_ArgumentCounter ==
    (last.op = "interpret_source" /\ last.arg \in ArgumentCallPrograms) =>
        /\ ~Compiled[last.arg].overflowed
        /\ result # "Panic"
        /\ arguments_written(Sources[last.arg]) > MaxParams =>
               /\ "Can't have more than 255 params"
                      \in reported_messages(last.arg)
               /\ result = "CompileError"
        /\ Compiled[last.arg].errors = <<>> =>
               call_operands(Compiled[last.arg].function.chunk)
                   = { arguments_written(Sources[last.arg]) }

\* the half of C29 that holds: when no error is reported the operand byte
\* written after Call is the number of arguments parsed
C29_OperandCounts ==
    (/\ last.op = "interpret_source"
     /\ last.arg \in ArgumentCallPrograms
     /\ Compiled[last.arg].errors = <<>>) =>
        call_operands(Compiled[last.arg].function.chunk)
            = { arguments_written(Sources[last.arg]) }

\* a call of 255 arguments has been compiled without an error
C29_Accepted ==
    /\ last.op = "interpret_source"
    /\ last.arg \in ArgumentCallPrograms
    /\ arguments_written(Sources[last.arg]) = MaxParams
    /\ result = "Running"

\* a call of 256 arguments has been compiled by the build that checks overflow
C29_Overflowed ==
    /\ last.op = "interpret_source"
    /\ last.arg \in ArgumentCallPrograms
    /\ arguments_written(Sources[last.arg]) = MaxParams + 1
    /\ result = "Panic"

-----------------------------------------------------------------------------
(* C30: the loops of the compiler *)

\* the loops of the compiler that the history follows
CompilerLoops ==
    { "compile", "block_statement", "parse_precedence", "parameters",
      "arguments", "error_synchronize" }

\* the turns of the loops of compile(Sources[k]) that consumed no token
idle_turns(k) == Compiled[k].idle

\* compile(Sources[k]) left every loop it entered and stands at Eof
compile_ended(k) == Compiled[k].at_eof /\ Compiled[k].marks = <<>>

\* C30: compile terminates on every finite token stream, with or without
\* errors: every turn of the loop of compile, of the loop of a block, of the
\* infix loop of parse_precedence, of the parameter and argument loops and of
\* error_synchronize consumes at least one token or stops at Eof, so Eof is
\* reached and compile returns.
C30_Terminates ==
    last.op = "interpret_source" =>
        /\ \A t \in idle_turns(last.arg) : t.loop \in CompilerLoops /\ t.at_eof
        /\ compile_ended(last.arg)
        /\ result \in {"Running", "CompileError"}

\* what holds of the loops in either build: a turn that consumes no token
\* stands at Eof or is the last turn of the parameter loop, and no loop turns
\* again after such a turn; the compiler that goes on after a wrapped
\* overflow leaves every loop and ends at Eof
C30_Progress ==
    last.op = "interpret_source" =>
        /\ \A t \in idle_turns(last.arg) :
               /\ ~t.goes_on
               /\ t.at_eof \/ t.loop = "parameters"
        /\ compile_ended(last.arg)

\* a parameter loop has ended on a token that is no parameter name, away from
\* Eof, without consuming it
C30_ParameterBreak ==
    /\ last.op = "interpret_source"
    /\ result = "CompileError"
    /\ [loop |-> "parameters", goes_on |-> FALSE, at_eof |-> FALSE]
           \in idle_turns(last.arg)

\* compile has panicked in a loop statement, short of Eof
C30_Panicked ==
    /\ last.op = "interpret_source"
    /\ result = "Panic"
    /\ idle_turns(last.arg) = {}

====
